---- MODULE Spec2Model ----
(***************************************************************************)
(* Model of the alerts-trigger service: one evaluation cycle                *)
(* (AlertsTriggerService.runEvaluationCycle) with its remote calls as       *)
(* separate request/settle steps, the pure evaluation helpers               *)
(* (AlertEvaluationService, weatherDataExtractor) and the alert store       *)
(* client (AlertsApiService).                                               *)
(*                                                                          *)
(* Strings the code concatenates or canonicalises (cities, location keys,   *)
(* weather-map keys) are sequences of one-character strings, so that        *)
(* toLowerCase, trim and template concatenation are computed, not assumed.  *)
(* Numeric weather values and thresholds are fixed-point, in hundredths.    *)
(* An optional field is a sequence of length 0 (absent) or 1 (present).     *)
(***************************************************************************)
EXTENDS Integers, Sequences, FiniteSets, TLC

VARIABLES
    cycles,     \* one record per started runEvaluationCycle call, in start order
    stored,     \* alert store: lastState of every alert id
    sched,      \* index.ts: position of StartWebServer / the cron schedule
    call        \* one application of a pure function: its arguments and result

vars == <<cycles, stored, sched, call>>

-----------------------------------------------------------------------------
(* Bounds of the model *)

\* longest list of pending alerts the store returns
MaxAlerts == 4

-----------------------------------------------------------------------------
(* Strings as character sequences *)

None == <<>>
Some(x) == <<x>>

UpperCase == <<"A","B","C","D","E","F","G","H","I","J","K","L","M",
               "N","O","P","Q","R","S","T","U","V","W","X","Y","Z">>
LowerCase == <<"a","b","c","d","e","f","g","h","i","j","k","l","m",
               "n","o","p","q","r","s","t","u","v","w","x","y","z">>

\* String.prototype.toLowerCase on one character
toLowerChar(ch) ==
    IF \E i \in DOMAIN UpperCase : UpperCase[i] = ch
    THEN LowerCase[CHOOSE i \in DOMAIN UpperCase : UpperCase[i] = ch]
    ELSE ch

\* String.prototype.toLowerCase
toLowerCase(s) == [i \in DOMAIN s |-> toLowerChar(s[i])]

isWhitespace(ch) == ch = " "

\* String.prototype.trim: drop leading and trailing whitespace
trim(s) ==
    LET keep == {i \in DOMAIN s : ~isWhitespace(s[i])}
    IN  IF keep = {} THEN <<>>
        ELSE LET lo == CHOOSE i \in keep : \A j \in keep : i <= j
                 hi == CHOOSE i \in keep : \A j \in keep : j <= i
             IN  SubSeq(s, lo, hi)

Digits == <<"0","1","2","3","4","5","6","7","8","9">>

RECURSIVE natToString(_)
natToString(n) ==
    IF n < 10 THEN <<Digits[n + 1]>>
    ELSE natToString(n \div 10) \o <<Digits[(n % 10) + 1]>>

\* Number-to-string conversion of a template literal, for integers
numberToString(n) == IF n < 0 THEN <<"-">> \o natToString(-n) ELSE natToString(n)

\* the characters of a few string literals of the source
StrRealtime == <<"r","e","a","l","t","i","m","e",":">>
StrForecast == <<"f","o","r","e","c","a","s","t",":">>
Str1h == <<"1","h">>
Str1d == <<"1","d">>
StrLatEq == <<"l","a","t","=">>
StrAmpLonEq == <<"&","l","o","n","=">>
StrCityEq == <<"c","i","t","y","=">>
StrAmpTimestepEq == <<"&","t","i","m","e","s","t","e","p","=">>

\* encodeURIComponent on one character of the model's alphabet: letters,
\* digits and - _ . are kept, everything else is percent-encoded
encodeChar(ch) ==
    CASE ch = " " -> <<"%","2","0">>
      [] ch = "," -> <<"%","2","C">>
      [] ch = "&" -> <<"%","2","6">>
      [] ch = "=" -> <<"%","3","D">>
      [] ch = ":" -> <<"%","3","A">>
      [] OTHER    -> <<ch>>

RECURSIVE encodeURIComponent(_)
encodeURIComponent(s) ==
    IF s = <<>> THEN <<>> ELSE encodeChar(Head(s)) \o encodeURIComponent(Tail(s))

-----------------------------------------------------------------------------
(* A JS Map with insertion order: a sequence of [key, value] entries *)

MapHas(m, k) == \E i \in DOMAIN m : m[i].key = k
MapIndex(m, k) == CHOOSE i \in DOMAIN m : m[i].key = k
MapGet(m, k) == m[MapIndex(m, k)].value
MapSet(m, k, v) ==
    IF MapHas(m, k)
    THEN [m EXCEPT ![MapIndex(m, k)] = [key |-> k, value |-> v]]
    ELSE Append(m, [key |-> k, value |-> v])
MapKeys(m) == {m[i].key : i \in DOMAIN m}

-----------------------------------------------------------------------------
(* AlertEvaluationService.createLocationKey / groupAlertsByLocation *)

\* a result that is either a value <<v>> or a thrown error <<>>
Threw == <<>>
Returned(v) == <<v>>

\* createLocationKey, were the city only lower-cased
createLocationKey_NoTrim(location) ==
    IF location.lat # None /\ location.lon # None
    THEN Returned(numberToString(location.lat[1]) \o <<",">> \o numberToString(location.lon[1]))
    ELSE IF location.city # None /\ location.city[1] # <<>>
    THEN Returned(toLowerCase(location.city[1]))
    ELSE Threw

createLocationKey(location) ==
    IF location.lat # None /\ location.lon # None
    THEN Returned(numberToString(location.lat[1]) \o <<",">> \o numberToString(location.lon[1]))
    ELSE IF location.city # None /\ location.city[1] # <<>>
    THEN Returned(trim(toLowerCase(location.city[1])))
    ELSE Threw

\* groupAlertsByLocation, were a later alert of a key to replace its group
RECURSIVE groupAlertsByLocation_Replaces(_)
groupAlertsByLocation_Replaces(alerts) ==
    IF alerts = <<>> THEN <<>>
    ELSE LET n == Len(alerts)
             grouped == groupAlertsByLocation_Replaces(SubSeq(alerts, 1, n - 1))
             alert == alerts[n]
             locationKey == createLocationKey(alert.location)
         IN  IF locationKey = Threw THEN grouped
             ELSE MapSet(grouped, locationKey[1], <<alert>>)

RECURSIVE groupAlertsByLocation(_)
groupAlertsByLocation(alerts) ==
    IF alerts = <<>> THEN <<>>
    ELSE LET n == Len(alerts)
             grouped == groupAlertsByLocation(SubSeq(alerts, 1, n - 1))
             alert == alerts[n]
             locationKey == createLocationKey(alert.location)
         IN  IF locationKey = Threw THEN grouped
             ELSE IF MapHas(grouped, locationKey[1])
             THEN MapSet(grouped, locationKey[1], Append(MapGet(grouped, locationKey[1]), alert))
             ELSE MapSet(grouped, locationKey[1], <<alert>>)

-----------------------------------------------------------------------------
(* weatherDataExtractor *)

\* an absent optional number read as -1
OrZero_Sentinel(opt) == IF opt = None THEN -1 ELSE opt[1]

\* `x || 0` on an optional number
OrZero(opt) == IF opt = None THEN 0 ELSE opt[1]

\* extractFromCurrentWeather, were an absent optional field an error
extractFromCurrentWeather_NoDefault(data, parameter) ==
    CASE parameter = "temperature" -> Returned(data.temperature)
      [] parameter = "humidity" -> Returned(data.humidity)
      [] parameter = "windSpeed" -> Returned(data.windSpeed)
      [] parameter = "windDirection" -> Returned(data.windDirection)
      [] parameter = "precipitation.intensity" -> Returned(data.precipitation.intensity)
      [] parameter = "precipitation.probability" -> Returned(data.precipitation.probability)
      [] parameter = "visibility" -> Returned(data.visibility)
      [] parameter = "uvIndex" -> data.uvIndex
      [] parameter = "cloudCover" -> data.cloudCover
      [] parameter = "pressure" -> data.pressure
      [] parameter = "weatherCode" -> data.weatherCode
      [] OTHER -> Threw

extractFromCurrentWeather(data, parameter) ==
    CASE parameter = "temperature" -> Returned(data.temperature)
      [] parameter = "humidity" -> Returned(data.humidity)
      [] parameter = "windSpeed" -> Returned(data.windSpeed)
      [] parameter = "windDirection" -> Returned(data.windDirection)
      [] parameter = "precipitation.intensity" -> Returned(data.precipitation.intensity)
      [] parameter = "precipitation.probability" -> Returned(data.precipitation.probability)
      [] parameter = "visibility" -> Returned(data.visibility)
      [] parameter = "uvIndex" -> Returned(OrZero(data.uvIndex))
      [] parameter = "cloudCover" -> Returned(OrZero(data.cloudCover))
      [] parameter = "pressure" -> Returned(OrZero(data.pressure))
      [] parameter = "weatherCode" -> Returned(OrZero(data.weatherCode))
      [] OTHER -> Threw

ForecastDefaultZero == 0
ForecastDefaultVisibility == 10000

\* extraction from the last interval of the series instead of the first
extractFromForecastWeather_LastInterval(data, parameter) ==
    IF data.intervals = <<>> THEN Threw
    ELSE LET nextInterval == data.intervals[Len(data.intervals)]
         IN  CASE parameter = "temperature" -> Returned(nextInterval.temperature)
               [] parameter = "humidity" -> Returned(nextInterval.humidity)
               [] parameter = "windSpeed" -> Returned(nextInterval.windSpeed)
               [] parameter = "precipitation.intensity" -> Returned(nextInterval.precipitationChance)
               [] parameter = "precipitation.probability" -> Returned(nextInterval.precipitationChance)
               [] parameter = "uvIndex" -> Returned(nextInterval.uvIndex)
               [] parameter = "cloudCover" -> Returned(nextInterval.cloudCover)
               [] parameter = "weatherCode" -> Returned(nextInterval.weatherCode)
               [] parameter = "visibility" -> Returned(ForecastDefaultVisibility)
               [] parameter \in {"windDirection", "pressure"} -> Returned(ForecastDefaultZero)
               [] OTHER -> Threw

\* extraction, were the forecast intensity a default 0 like the fields it lacks
extractFromForecastWeather_IntensityZero(data, parameter) ==
    IF data.intervals = <<>> THEN Threw
    ELSE LET nextInterval == data.intervals[1]
         IN  CASE parameter = "temperature" -> Returned(nextInterval.temperature)
               [] parameter = "humidity" -> Returned(nextInterval.humidity)
               [] parameter = "windSpeed" -> Returned(nextInterval.windSpeed)
               [] parameter = "windDirection" -> Returned(ForecastDefaultZero)
               [] parameter = "precipitation.intensity" -> Returned(ForecastDefaultZero)
               [] parameter = "precipitation.probability" -> Returned(nextInterval.precipitationChance)
               [] parameter = "visibility" -> Returned(ForecastDefaultVisibility)
               [] parameter = "uvIndex" -> Returned(nextInterval.uvIndex)
               [] parameter = "cloudCover" -> Returned(nextInterval.cloudCover)
               [] parameter = "pressure" -> Returned(ForecastDefaultZero)
               [] parameter = "weatherCode" -> Returned(nextInterval.weatherCode)
               [] OTHER -> Threw

extractFromForecastWeather(data, parameter) ==
    IF data.intervals = <<>> THEN Threw
    ELSE LET nextInterval == data.intervals[1]
         IN  CASE parameter = "temperature" -> Returned(nextInterval.temperature)
               [] parameter = "humidity" -> Returned(nextInterval.humidity)
               [] parameter = "windSpeed" -> Returned(nextInterval.windSpeed)
               [] parameter = "windDirection" -> Returned(ForecastDefaultZero)
               [] parameter = "precipitation.intensity" -> Returned(nextInterval.precipitationChance)
               [] parameter = "precipitation.probability" -> Returned(nextInterval.precipitationChance)
               [] parameter = "visibility" -> Returned(ForecastDefaultVisibility)
               [] parameter = "uvIndex" -> Returned(nextInterval.uvIndex)
               [] parameter = "cloudCover" -> Returned(nextInterval.cloudCover)
               [] parameter = "pressure" -> Returned(ForecastDefaultZero)
               [] parameter = "weatherCode" -> Returned(nextInterval.weatherCode)
               [] OTHER -> Threw

extractWeatherParameter(data, parameter, isCurrentWeather) ==
    IF isCurrentWeather
    THEN extractFromCurrentWeather(data, parameter)
    ELSE extractFromForecastWeather(data, parameter)

currentWeatherParams ==
    {"temperature", "humidity", "windSpeed", "windDirection",
     "precipitation.intensity", "precipitation.probability",
     "visibility", "uvIndex", "cloudCover", "pressure", "weatherCode"}

forecastWeatherParams ==
    {"temperature", "humidity", "windSpeed",
     "precipitation.intensity", "precipitation.probability",
     "uvIndex", "cloudCover", "weatherCode"}

\* isParameterSupported, were it to accept every enumerated name for both kinds
isParameterSupported_AnyKind(parameter, isCurrentWeather) ==
    parameter \in currentWeatherParams

isParameterSupported(parameter, isCurrentWeather) ==
    parameter \in (IF isCurrentWeather THEN currentWeatherParams ELSE forecastWeatherParams)

-----------------------------------------------------------------------------
(* AlertEvaluationService.evaluateCondition / evaluateAlert / evaluateAlerts *)

Abs(x) == IF x < 0 THEN -x ELSE x

\* 0.01, in hundredths
Tolerance == 1

\* evaluateCondition, were '!=' to need a difference above the tolerance
evaluateCondition_StrictInequality(actualValue, operator, threshold) ==
    CASE operator = ">"  -> actualValue > threshold
      [] operator = "<"  -> actualValue < threshold
      [] operator = ">=" -> actualValue >= threshold
      [] operator = "<=" -> actualValue <= threshold
      [] operator = "==" -> Abs(actualValue - threshold) < Tolerance
      [] operator = "!=" -> Abs(actualValue - threshold) > Tolerance
      [] OTHER -> FALSE

\* evaluateCondition, were an unknown operator to count as a match
evaluateCondition_UnknownTrue(actualValue, operator, threshold) ==
    CASE operator = ">"  -> actualValue > threshold
      [] operator = "<"  -> actualValue < threshold
      [] operator = ">=" -> actualValue >= threshold
      [] operator = "<=" -> actualValue <= threshold
      [] operator = "==" -> Abs(actualValue - threshold) < Tolerance
      [] operator = "!=" -> Abs(actualValue - threshold) >= Tolerance
      [] OTHER -> TRUE

evaluateCondition(actualValue, operator, threshold) ==
    CASE operator = ">"  -> actualValue > threshold
      [] operator = "<"  -> actualValue < threshold
      [] operator = ">=" -> actualValue >= threshold
      [] operator = "<=" -> actualValue <= threshold
      [] operator = "==" -> Abs(actualValue - threshold) < Tolerance
      [] operator = "!=" -> Abs(actualValue - threshold) >= Tolerance
      [] OTHER -> FALSE

\* evaluateAlert, were its catch to answer 'triggered'
evaluateAlert_FaultTriggers(alert, weatherData) ==
    LET isCurrentWeather == alert.type = "realtime"
    IN  IF ~isParameterSupported(alert.parameter, isCurrentWeather) THEN "not_triggered"
        ELSE LET actualValue == extractWeatherParameter(weatherData, alert.parameter, isCurrentWeather)
             IN  IF actualValue = Threw THEN "triggered"
                 ELSE IF evaluateCondition(actualValue[1], alert.operator, alert.threshold)
                      THEN "triggered" ELSE "not_triggered"

evaluateAlert(alert, weatherData) ==
    LET isCurrentWeather == alert.type = "realtime"
    IN  IF ~isParameterSupported(alert.parameter, isCurrentWeather) THEN "not_triggered"
        ELSE LET actualValue == extractWeatherParameter(weatherData, alert.parameter, isCurrentWeather)
             IN  IF actualValue = Threw THEN "not_triggered"
                 ELSE IF evaluateCondition(actualValue[1], alert.operator, alert.threshold)
                      THEN "triggered" ELSE "not_triggered"

\* the calls evaluateAlert makes, in order, with the value each one returned
\* (<<>> for a call that threw)
evaluateAlertCalls(alert, weatherData) ==
    LET isCurrentWeather == alert.type = "realtime"
        supported == isParameterSupported(alert.parameter, isCurrentWeather)
        actualValue == extractWeatherParameter(weatherData, alert.parameter, isCurrentWeather)
    IN  <<[fn |-> "isParameterSupported", returned |-> Returned(supported)]>>
        \o (IF ~supported THEN <<>>
            ELSE <<[fn |-> "extractWeatherParameter", returned |-> actualValue]>>
                 \o (IF actualValue = Threw THEN <<>>
                     ELSE <<[fn |-> "evaluateCondition",
                             returned |-> Returned(evaluateCondition(
                                 actualValue[1], alert.operator, alert.threshold))]>>))

\* `alert.timestep || '1h'`
timestepOrDefault(alert) == IF alert.timestep = None THEN Str1h ELSE alert.timestep[1]

\* the lookup key, were it built without the timestep
weatherDataKey_NoTimestep(alert, locationKey) ==
    IF alert.type = "realtime"
    THEN StrRealtime \o locationKey
    ELSE StrForecast \o locationKey

\* the key evaluateAlerts looks an alert up under (given its location key)
weatherDataKey(alert, locationKey) ==
    IF alert.type = "realtime"
    THEN StrRealtime \o locationKey
    ELSE StrForecast \o timestepOrDefault(alert) \o <<":">> \o locationKey

\* the loop body of evaluateAlerts, were missing data to count as a match
evaluateOne_MissingTriggers(alert, weatherDataMap) ==
    LET locationKey == createLocationKey(alert.location)
    IN  IF locationKey = Threw THEN "not_triggered"
        ELSE LET key == weatherDataKey(alert, locationKey[1])
             IN  IF key \notin DOMAIN weatherDataMap THEN "triggered"
                 ELSE evaluateAlert(alert, weatherDataMap[key])

\* the loop body of evaluateAlerts: its try/catch around one alert.
\* weatherDataMap is a function from the keys it holds to the fetched data
evaluateOne(alert, weatherDataMap) ==
    LET locationKey == createLocationKey(alert.location)
    IN  IF locationKey = Threw THEN "not_triggered"
        ELSE LET key == weatherDataKey(alert, locationKey[1])
             IN  IF key \notin DOMAIN weatherDataMap THEN "not_triggered"
                 ELSE evaluateAlert(alert, weatherDataMap[key])

\* evaluateAlerts, were an alert without a location key left out of the results
RECURSIVE evaluateAlerts_SkipsInvalid(_, _)
evaluateAlerts_SkipsInvalid(alerts, weatherDataMap) ==
    IF alerts = <<>> THEN <<>>
    ELSE LET n == Len(alerts)
             results == evaluateAlerts_SkipsInvalid(SubSeq(alerts, 1, n - 1), weatherDataMap)
         IN  IF createLocationKey(alerts[n].location) = Threw THEN results
             ELSE MapSet(results, alerts[n].id, evaluateOne(alerts[n], weatherDataMap))

RECURSIVE evaluateAlerts(_, _)
evaluateAlerts(alerts, weatherDataMap) ==
    IF alerts = <<>> THEN <<>>
    ELSE LET n == Len(alerts)
             results == evaluateAlerts(SubSeq(alerts, 1, n - 1), weatherDataMap)
         IN  MapSet(results, alerts[n].id, evaluateOne(alerts[n], weatherDataMap))


-----------------------------------------------------------------------------
(* Inputs: the alerts the store may hold and the data the weather service
   may answer with *)

NoLocation == [lat |-> None, lon |-> None, city |-> None]
AtCoordinates(lat, lon) == [lat |-> Some(lat), lon |-> Some(lon), city |-> None]
InCity(city) == [lat |-> None, lon |-> None, city |-> Some(city)]

CityCairo == <<"C","a","i","r","o">>
CityCairoPadded == <<" ","c","a","i","r","o">>
CityLikeCoordinates == <<"3","0",",","3","1">>

\* (a) realtime temperature > 30 in Cairo
AlertA == [id |-> "a", type |-> "realtime", parameter |-> "temperature", operator |-> ">",
           threshold |-> 3000, location |-> InCity(CityCairo), timestep |-> None]
\* (b) hourly forecast humidity < 20 at (30,31)
AlertB == [id |-> "b", type |-> "forecast", parameter |-> "humidity", operator |-> "<",
           threshold |-> 2000, location |-> AtCoordinates(30, 31), timestep |-> Some(Str1h)]
\* (c) realtime uvIndex >= 8 at (30,31)
AlertC == [id |-> "c", type |-> "realtime", parameter |-> "uvIndex", operator |-> ">=",
           threshold |-> 800, location |-> AtCoordinates(30, 31), timestep |-> None]
\* forecast without timestep, city written differently
AlertD == [id |-> "d", type |-> "forecast", parameter |-> "temperature", operator |-> ">=",
           threshold |-> 2500, location |-> InCity(CityCairoPadded), timestep |-> None]
\* no location at all
AlertE == [id |-> "e", type |-> "realtime", parameter |-> "humidity", operator |-> ">",
           threshold |-> 1000, location |-> NoLocation, timestep |-> None]
\* daily forecast at (30,31)
AlertF == [id |-> "f", type |-> "forecast", parameter |-> "precipitation.probability",
           operator |-> "==", threshold |-> 5000, location |-> AtCoordinates(30, 31),
           timestep |-> Some(Str1d)]
\* a city whose name reads like coordinates, on an optional field
AlertG == [id |-> "g", type |-> "realtime", parameter |-> "pressure", operator |-> "<",
           threshold |-> 100000, location |-> InCity(CityLikeCoordinates), timestep |-> None]

\* forecast without timestep at (30,31): shares the hourly fetch of (b)
AlertH == [id |-> "h", type |-> "forecast", parameter |-> "cloudCover", operator |-> "<=",
           threshold |-> 1000, location |-> AtCoordinates(30, 31), timestep |-> None]

\* the alerts of the store in the order the cycle asks for them
\* (sortBy createdAt, sortOrder desc): (g) is the newest, (h) the oldest
StoreAlertsNewestFirst ==
    <<AlertG, AlertA, AlertB, AlertC, AlertD, AlertE, AlertF, AlertH>>

StoreAlerts == {StoreAlertsNewestFirst[i] : i \in DOMAIN StoreAlertsNewestFirst}
AlertIds == {al.id : al \in StoreAlerts}

\* the lists a pending-alerts response may carry: any at most n of the
\* alerts S, sorted as requested
AlertLists(S, n) ==
    {SelectSeq(StoreAlertsNewestFirst, LAMBDA al : al \in T) :
        T \in {U \in SUBSET S : Cardinality(U) <= n}}

RealtimeHot ==
    [temperature |-> 3500, humidity |-> 4000, windSpeed |-> 500, windDirection |-> 18000,
     precipitation |-> [intensity |-> 0, probability |-> 1000], visibility |-> 1600,
     uvIndex |-> Some(900), cloudCover |-> Some(2000), pressure |-> Some(101300),
     weatherCode |-> Some(1000)]
RealtimeMild ==
    [temperature |-> 2000, humidity |-> 6000, windSpeed |-> 300, windDirection |-> 9000,
     precipitation |-> [intensity |-> 100, probability |-> 5000], visibility |-> 1000,
     uvIndex |-> None, cloudCover |-> None, pressure |-> None, weatherCode |-> None]
RealtimeSamples == {RealtimeHot, RealtimeMild}

IntervalDry ==
    [temperature |-> 2800, humidity |-> 1500, windSpeed |-> 400, precipitationChance |-> 5000,
     uvIndex |-> 300, cloudCover |-> 1000, weatherCode |-> 1000]
IntervalWet ==
    [temperature |-> 1800, humidity |-> 9000, windSpeed |-> 900, precipitationChance |-> 8000,
     uvIndex |-> 100, cloudCover |-> 9000, weatherCode |-> 4000]
ForecastDry == [intervals |-> <<IntervalDry, IntervalWet>>]
ForecastEmpty == [intervals |-> <<>>]
ForecastSamples == {ForecastDry, ForecastEmpty}

-----------------------------------------------------------------------------
(* WeatherApiService: requests of the weather fan-out *)

\* buildLocationQuery, were it to add the city to the coordinates it has
buildLocationQuery_Both(location) ==
    IF location.lat # None /\ location.lon # None
    THEN Returned(StrLatEq \o numberToString(location.lat[1])
                  \o StrAmpLonEq \o numberToString(location.lon[1])
                  \o (IF location.city # None /\ location.city[1] # <<>>
                      THEN <<"&">> \o StrCityEq \o encodeURIComponent(location.city[1])
                      ELSE <<>>))
    ELSE IF location.city # None /\ location.city[1] # <<>>
    THEN Returned(StrCityEq \o encodeURIComponent(location.city[1]))
    ELSE Threw

buildLocationQuery(location) ==
    IF location.lat # None /\ location.lon # None
    THEN Returned(StrLatEq \o numberToString(location.lat[1])
                  \o StrAmpLonEq \o numberToString(location.lon[1]))
    ELSE IF location.city # None /\ location.city[1] # <<>>
    THEN Returned(StrCityEq \o encodeURIComponent(location.city[1]))
    ELSE Threw

Request(api, method, path, query, ids, state) ==
    [api |-> api, method |-> method, path |-> path, query |-> query, ids |-> ids, state |-> state]

\* getRealTimeWeather up to its first await: the request it sends, if any
getRealTimeWeather(location) ==
    LET locationQuery == buildLocationQuery(location)
    IN  IF locationQuery = Threw THEN Threw
        ELSE Returned(Request("weather", "GET", "weather/realtime", locationQuery[1], <<>>, ""))

\* getForecastWeather up to its first await
getForecastWeather(location, timestep) ==
    LET locationQuery == buildLocationQuery(location)
    IN  IF locationQuery = Threw THEN Threw
        ELSE Returned(Request("weather", "GET", "weather/forecast",
                              locationQuery[1] \o StrAmpTimestepEq \o timestep, <<>>, ""))

\* the timesteps of the forecast alerts, were they kept in an array, not a Set
RECURSIVE timestepsOf_NoDedupe(_)
timestepsOf_NoDedupe(locationAlerts) ==
    IF locationAlerts = <<>> THEN <<>>
    ELSE LET n == Len(locationAlerts)
             before == timestepsOf_NoDedupe(SubSeq(locationAlerts, 1, n - 1))
             alert == locationAlerts[n]
         IN  IF alert.type # "forecast" THEN before
             ELSE Append(before, IF alert.timestep = None THEN Str1h ELSE alert.timestep[1])

\* new Set(forecastAlerts.map(alert => alert.timestep || '1h')), in insertion order
RECURSIVE timestepsOf(_)
timestepsOf(locationAlerts) ==
    IF locationAlerts = <<>> THEN <<>>
    ELSE LET n == Len(locationAlerts)
             before == timestepsOf(SubSeq(locationAlerts, 1, n - 1))
             alert == locationAlerts[n]
         IN  IF alert.type # "forecast" THEN before
             ELSE IF \E i \in DOMAIN before : before[i] = timestepOrDefault(alert) THEN before
             ELSE Append(before, timestepOrDefault(alert))

\* one launched fetch: the key it stores under, the request it sent (none when
\* building the query threw), whether it is still in flight and the data the
\* weather service answered with
Fetch(key, sentRequest) ==
    [key |-> key, request |-> sentRequest, data |-> None,
     status |-> IF sentRequest = Threw THEN "failed" ELSE "inflight"]

\* the fetches of one location group, were every forecast stored under one
\* key per location whatever its timestep
groupFetches_OneForecastKey(locationKey, locationAlerts) ==
    LET needsRealtime == \E i \in DOMAIN locationAlerts : locationAlerts[i].type = "realtime"
        needsForecast == \E i \in DOMAIN locationAlerts : locationAlerts[i].type = "forecast"
        location == locationAlerts[1].location
        timesteps == timestepsOf(locationAlerts)
    IN  IF locationAlerts = <<>> THEN <<>>
        ELSE (IF needsRealtime
              THEN <<Fetch(StrRealtime \o locationKey, getRealTimeWeather(location))>>
              ELSE <<>>)
             \o
             (IF needsForecast
              THEN [i \in DOMAIN timesteps |->
                       Fetch(StrForecast \o locationKey,
                             getForecastWeather(location, timesteps[i]))]
              ELSE <<>>)

\* the fetches one location group launches (loop body of fetchWeatherDataForLocations)
groupFetches(locationKey, locationAlerts) ==
    LET needsRealtime == \E i \in DOMAIN locationAlerts : locationAlerts[i].type = "realtime"
        needsForecast == \E i \in DOMAIN locationAlerts : locationAlerts[i].type = "forecast"
        location == locationAlerts[1].location
        timesteps == timestepsOf(locationAlerts)
    IN  IF locationAlerts = <<>> THEN <<>>
        ELSE (IF needsRealtime
              THEN <<Fetch(StrRealtime \o locationKey, getRealTimeWeather(location))>>
              ELSE <<>>)
             \o
             (IF needsForecast
              THEN [i \in DOMAIN timesteps |->
                       Fetch(StrForecast \o timesteps[i] \o <<":">> \o locationKey,
                             getForecastWeather(location, timesteps[i]))]
              ELSE <<>>)

\* fetchPromises after the loop over alertsByLocation
RECURSIVE fetchPromises(_)
fetchPromises(alertsByLocation) ==
    IF alertsByLocation = <<>> THEN <<>>
    ELSE LET n == Len(alertsByLocation)
         IN  fetchPromises(SubSeq(alertsByLocation, 1, n - 1))
             \o groupFetches(alertsByLocation[n].key, alertsByLocation[n].value)


-----------------------------------------------------------------------------
(* AlertsApiService: pending alerts, bulk update *)

\* what the store may answer to GET alerts?lastState=not_triggered: the
\* request is rejected; the body is null ("nobody"); the body's data is not a
\* list ("malformed"); the body says success = false and carries a list
\* ("refused"); or success with a list
PendingOutcomes(lists) ==
    {[kind |-> "rejected", data |-> <<>>], [kind |-> "nobody", data |-> <<>>],
     [kind |-> "malformed", data |-> <<>>]}
    \cup {[kind |-> "refused", data |-> l] : l \in lists}
    \cup {[kind |-> "ok", data |-> l] : l \in lists}

\* getNotTriggeredAlerts, were an unexpected body an error
getNotTriggeredAlerts_Strict(outcome) ==
    IF outcome.kind = "ok" THEN Returned(outcome.data) ELSE Threw

\* getNotTriggeredAlerts once its GET has settled with `outcome`: reading
\* response.data.success of a null body throws inside .then, and the .catch
\* rethrows that like a rejected request
getNotTriggeredAlerts(outcome) ==
    IF outcome.kind \in {"rejected", "nobody"} THEN Threw
    ELSE IF outcome.kind = "ok" THEN Returned(outcome.data)
    ELSE Returned(<<>>)

\* fetchNotTriggeredAlerts, were its catch to answer an empty list
fetchNotTriggeredAlerts_Swallows(outcome) ==
    IF getNotTriggeredAlerts(outcome) = Threw THEN Returned(<<>>)
    ELSE getNotTriggeredAlerts(outcome)

\* fetchNotTriggeredAlerts: rethrows
fetchNotTriggeredAlerts(outcome) == getNotTriggeredAlerts(outcome)

Min(a, b) == IF a < b THEN a ELSE b

\* Array.prototype.slice(0, m) and slice(m), for m >= 0
SliceTo(xs, m) == SubSeq(xs, 1, Min(m, Len(xs)))
SliceFrom(xs, m) == SubSeq(xs, Min(m, Len(xs)) + 1, Len(xs))

\* what the store may answer to one PATCH alerts/bulk-update of n ids
BatchOutcomes(n) ==
    {[transport |-> "failed", success |-> FALSE, modifiedCount |-> 0],
     [transport |-> "ok", success |-> FALSE, modifiedCount |-> 0]}
    \cup {[transport |-> "ok", success |-> TRUE, modifiedCount |-> m] : m \in 0..(n + 1)}

\* createBatchUpdateRequest: the PATCH it sends
batchUpdateRequest(state, alertIds) ==
    Request("alerts", "PATCH", "alerts/bulk-update", <<>>, alertIds, state)

\* createBatchUpdateRequest: what its promise resolves to (it never rejects:
\* a failed PATCH is caught and becomes success: false)
createBatchUpdateRequest(state, alertIds, outcome) ==
    IF outcome.transport = "ok"
    THEN [status |-> "fulfilled", state |-> state, alertIds |-> alertIds, success |-> TRUE,
          response |-> Some([success |-> outcome.success, modifiedCount |-> outcome.modifiedCount])]
    ELSE [status |-> "fulfilled", state |-> state, alertIds |-> alertIds, success |-> FALSE,
          response |-> None]

\* processBatchUpdateResult, were every id of a partly modified batch reported failed
processBatchUpdateResult_FailsAll(result) ==
    IF result.success /\ result.response # None /\ result.response[1].success
    THEN LET modifiedCount == result.response[1].modifiedCount
         IN  [successful |-> IF modifiedCount > 0 THEN SliceTo(result.alertIds, modifiedCount) ELSE <<>>,
              failed |-> IF modifiedCount < Len(result.alertIds)
                         THEN result.alertIds ELSE <<>>]
    ELSE [successful |-> <<>>, failed |-> result.alertIds]

processBatchUpdateResult(result) ==
    IF result.success /\ result.response # None /\ result.response[1].success
    THEN LET modifiedCount == result.response[1].modifiedCount
         IN  [successful |-> IF modifiedCount > 0 THEN SliceTo(result.alertIds, modifiedCount) ELSE <<>>,
              failed |-> IF modifiedCount < Len(result.alertIds)
                         THEN SliceFrom(result.alertIds, modifiedCount) ELSE <<>>]
    ELSE [successful |-> <<>>, failed |-> result.alertIds]

\* updatesByState, were each id to replace the group instead of joining it
RECURSIVE updatesByState_Overwrites(_)
updatesByState_Overwrites(updates) ==
    IF updates = <<>> THEN <<>>
    ELSE LET n == Len(updates)
             before == updatesByState_Overwrites(SubSeq(updates, 1, n - 1))
         IN  MapSet(before, updates[n].newState, <<updates[n].alertId>>)

\* updatesByState of updateMultiAlerts: state -> ids, in insertion order
RECURSIVE updatesByState(_)
updatesByState(updates) ==
    IF updates = <<>> THEN <<>>
    ELSE LET n == Len(updates)
             before == updatesByState(SubSeq(updates, 1, n - 1))
             u == updates[n]
         IN  IF MapHas(before, u.newState)
             THEN MapSet(before, u.newState, Append(MapGet(before, u.newState), u.alertId))
             ELSE MapSet(before, u.newState, <<u.alertId>>)

\* batchPromises of updateMultiAlerts: one PATCH in flight per state group
batchPromises(updates) ==
    LET groups == updatesByState(updates)
    IN  [i \in DOMAIN groups |->
            [state |-> groups[i].key, alertIds |-> groups[i].value, result |-> None]]

\* the aggregation loop of updateMultiAlerts over the settled batches
RECURSIVE aggregateBatches(_)
aggregateBatches(batches) ==
    IF batches = <<>> THEN [successfulUpdates |-> <<>>, failedUpdates |-> <<>>]
    ELSE LET n == Len(batches)
             before == aggregateBatches(SubSeq(batches, 1, n - 1))
             result == batches[n].result[1]
             one == IF result.status = "fulfilled"
                    THEN processBatchUpdateResult(result)
                    ELSE [successful |-> <<>>, failed |-> batches[n].alertIds]
         IN  [successfulUpdates |-> before.successfulUpdates \o one.successful,
              failedUpdates |-> before.failedUpdates \o one.failed]

\* updateMultiAlerts, were it to reject when a batch could not be sent
updateMultiAlerts_Rejects(batches) ==
    LET agg == aggregateBatches(batches)
    IN  [threw |-> \E i \in DOMAIN batches : ~batches[i].result[1].success,
         success |-> Len(agg.failedUpdates) = 0,
         successfulUpdates |-> agg.successfulUpdates,
         failedUpdates |-> agg.failedUpdates]

\* updateMultiAlerts once every batch has settled; threw: whether it rejects
updateMultiAlerts(batches) ==
    LET agg == aggregateBatches(batches)
    IN  [threw |-> FALSE,
         success |-> Len(agg.failedUpdates) = 0,
         successfulUpdates |-> agg.successfulUpdates,
         failedUpdates |-> agg.failedUpdates]

NoWriteResult ==
    [threw |-> FALSE, success |-> TRUE, successfulUpdates |-> <<>>, failedUpdates |-> <<>>]

-----------------------------------------------------------------------------
(* AlertsTriggerService: updateAlertStates, updateAlertStatesIndividually *)

\* triggeredAlerts, were the filter on 'triggered' missing
triggeredAlerts_Unfiltered(evaluationResults) ==
    [i \in DOMAIN evaluationResults |->
        [alertId |-> evaluationResults[i].key, newState |-> evaluationResults[i].value]]

\* evaluationResults entries with newState = 'triggered', as {alertId, newState}
triggeredAlerts(evaluationResults) ==
    LET kept == SelectSeq(evaluationResults, LAMBDA e : e.value = "triggered")
    IN  [i \in DOMAIN kept |-> [alertId |-> kept[i].key, newState |-> kept[i].value]]

\* updateAlertState: the PUT it sends
updateAlertStateRequest(alertId, newState) ==
    Request("alerts", "PUT", "alerts/:id", <<>>, <<alertId>>, newState)

\* updateAlertStatesIndividually up to its await: one PUT per triggered alert
updateAlertStatesIndividually(cy) ==
    LET triggered == triggeredAlerts(cy.evaluationResults)
    IN  IF triggered = <<>> THEN [cy EXCEPT !.pc = "done"]
        ELSE [cy EXCEPT
                 !.pc = "fallback",
                 !.successCount = 0,
                 !.failureCount = 0,
                 !.updatePromises = [i \in DOMAIN triggered |->
                     [alertId |-> triggered[i].alertId, newState |-> triggered[i].newState,
                      status |-> "inflight"]],
                 !.requests = @ \o [i \in DOMAIN triggered |->
                     updateAlertStateRequest(triggered[i].alertId, triggered[i].newState)]]

\* what a PUT alerts/:id may settle with
UpdateOutcomes == {"ok", "refused", "rejected"}

\* updateAlertState after its PUT settled: true only on a body with success,
\* false on any other body and on a rejected request (it never rejects)
updateAlertState(outcome) == outcome = "ok"

\* the fallback, were the first failed update to end the wait
afterUpdateAlertState_FailFast(cy, i, outcome) ==
    LET success == updateAlertState(outcome)
        next == [cy EXCEPT
                    !.updatePromises[i].status = outcome,
                    !.successCount = IF success THEN @ + 1 ELSE @,
                    !.failureCount = IF success THEN @ ELSE @ + 1]
    IN  IF ~success \/ \A j \in DOMAIN next.updatePromises :
                          next.updatePromises[j].status # "inflight"
        THEN [next EXCEPT !.pc = "done"]
        ELSE next

\* updateAlertStatesIndividually when the i-th update settles: its .then
\* counts it, and Promise.allSettled(updatePromises) resolves after the last
afterUpdateAlertState(cy, i, outcome) ==
    LET success == updateAlertState(outcome)
        next == [cy EXCEPT
                    !.updatePromises[i].status = outcome,
                    !.successCount = IF success THEN @ + 1 ELSE @,
                    !.failureCount = IF success THEN @ ELSE @ + 1]
    IN  IF \A j \in DOMAIN next.updatePromises :
               next.updatePromises[j].status # "inflight"
        THEN [next EXCEPT !.pc = "done"]
        ELSE next

\* updateAlertStates up to `await updateMultiAlerts(...)`
updateAlertStates(cy) ==
    LET triggered == triggeredAlerts(cy.evaluationResults)
        batches == batchPromises(triggered)
    IN  IF cy.evaluationResults = <<>> THEN [cy EXCEPT !.pc = "done"]
        ELSE IF triggered = <<>> THEN [cy EXCEPT !.pc = "done"]
        ELSE [cy EXCEPT
                 !.pc = "bulk",
                 !.batches = batches,
                 !.requests = @ \o [i \in DOMAIN batches |->
                     batchUpdateRequest(batches[i].state, batches[i].alertIds)]]

\* updateAlertStates, were it to throw on a bulk update that did not succeed
afterUpdateMultiAlerts_Rethrows(cy) ==
    LET result == updateMultiAlerts(cy.batches)
    IN  IF result.success THEN [cy EXCEPT !.pc = "done", !.writeResult = result]
        ELSE [cy EXCEPT !.pc = "failed", !.writeResult = result]

\* updateAlertStates after `await updateMultiAlerts(...)`: the try/catch
afterUpdateMultiAlerts(cy) ==
    LET result == updateMultiAlerts(cy.batches)
    IN  IF result.threw
        THEN updateAlertStatesIndividually([cy EXCEPT !.writeResult = result])
        ELSE [cy EXCEPT !.pc = "done", !.writeResult = result]


-----------------------------------------------------------------------------
(* AlertsTriggerService.runEvaluationCycle as a state machine.

   pc of a cycle: "health"   awaiting performHealthChecks
                  "pending"  awaiting fetchNotTriggeredAlerts
                  "weather"  awaiting Promise.allSettled(fetchPromises)
                  "bulk"     awaiting updateMultiAlerts
                  "fallback" awaiting Promise.allSettled(updatePromises)
                  "done"     returned
                  "failed"   threw                                          *)

Terminal == {"done", "failed"}

HealthRequest(api) == Request(api, "GET", "health", <<>>, <<>>, "")
PendingRequest == Request("alerts", "GET", "alerts", <<>>, <<>>, "not_triggered")

\* runEvaluationCycle up to the await in performHealthChecks
NewCycle ==
    [pc |-> "health",
     alertsHealth |-> "inflight",
     weatherHealth |-> "inflight",
     pending |-> "none",
     alerts |-> <<>>,
     alertsByLocation |-> <<>>,
     fetches |-> <<>>,
     weatherDataMap |-> <<>>,
     evaluated |-> FALSE,
     evaluationResults |-> <<>>,
     batches |-> <<>>,
     updatePromises |-> <<>>,
     successCount |-> 0,
     failureCount |-> 0,
     writeResult |-> NoWriteResult,
     requests |-> <<HealthRequest("alerts"), HealthRequest("weather")>>]

\* performHealthChecks, were it to test only the alert store's answer
performHealthChecks_SkipsWeather(cy) ==
    IF cy.alertsHealth = "inflight" \/ cy.weatherHealth = "inflight" THEN cy
    ELSE IF cy.alertsHealth # "healthy" THEN [cy EXCEPT !.pc = "failed"]
    ELSE [cy EXCEPT !.pc = "pending", !.pending = "inflight",
                    !.requests = Append(@, PendingRequest)]

\* performHealthChecks after Promise.all, then the call of fetchNotTriggeredAlerts
performHealthChecks(cy) ==
    IF cy.alertsHealth = "inflight" \/ cy.weatherHealth = "inflight" THEN cy
    ELSE IF cy.alertsHealth # "healthy" THEN [cy EXCEPT !.pc = "failed"]
    ELSE IF cy.weatherHealth # "healthy" THEN [cy EXCEPT !.pc = "failed"]
    ELSE [cy EXCEPT !.pc = "pending", !.pending = "inflight",
                    !.requests = Append(@, PendingRequest)]

\* Promise.allSettled, were it to resolve only once every fetch is fulfilled
allSettled_AllFulfilled(fetches) == \A i \in DOMAIN fetches : fetches[i].status = "ok"

\* Promise.any in place of Promise.allSettled
allSettled_Any(fetches) ==
    fetches = <<>> \/ \E i \in DOMAIN fetches : fetches[i].status # "inflight"

\* Promise.allSettled(fetchPromises) has resolved
allSettled(fetches) == \A i \in DOMAIN fetches : fetches[i].status # "inflight"

\* steps 5 and 6 of runEvaluationCycle, run once the fetches have settled
evaluateAndUpdate(cy) ==
    IF ~allSettled(cy.fetches) THEN cy
    ELSE updateAlertStates(
             [cy EXCEPT !.evaluated = TRUE,
                        !.evaluationResults = evaluateAlerts(cy.alerts, cy.weatherDataMap)])

\* the requests the launched fetches sent, in launch order
RECURSIVE sentRequests(_)
sentRequests(fetches) ==
    IF fetches = <<>> THEN <<>>
    ELSE LET n == Len(fetches)
         IN  sentRequests(SubSeq(fetches, 1, n - 1)) \o fetches[n].request

\* steps 3 and 4 up to the await in fetchWeatherDataForLocations
fetchWeatherDataForLocations(cy) ==
    LET alertsByLocation == groupAlertsByLocation(cy.alerts)
        fetches == fetchPromises(alertsByLocation)
    IN  evaluateAndUpdate(
            [cy EXCEPT !.pc = "weather",
                       !.alertsByLocation = alertsByLocation,
                       !.fetches = fetches,
                       !.requests = @ \o sentRequests(fetches)])

\* runEvaluationCycle, were an empty list of pending alerts an error
afterFetchNotTriggeredAlerts_EmptyFails(cy, outcome) ==
    LET alerts == fetchNotTriggeredAlerts(outcome)
    IN  IF alerts = Threw THEN [cy EXCEPT !.pc = "failed", !.pending = outcome.kind]
        ELSE IF Len(alerts[1]) = 0 THEN [cy EXCEPT !.pc = "failed", !.pending = outcome.kind]
        ELSE fetchWeatherDataForLocations(
                 [cy EXCEPT !.pending = outcome.kind, !.alerts = alerts[1]])

\* runEvaluationCycle after `await fetchNotTriggeredAlerts()`
afterFetchNotTriggeredAlerts(cy, outcome) ==
    LET alerts == fetchNotTriggeredAlerts(outcome)
    IN  IF alerts = Threw THEN [cy EXCEPT !.pc = "failed", !.pending = outcome.kind]
        ELSE IF Len(alerts[1]) = 0 THEN [cy EXCEPT !.pc = "done", !.pending = outcome.kind]
        ELSE fetchWeatherDataForLocations(
                 [cy EXCEPT !.pending = outcome.kind, !.alerts = alerts[1]])

\* the .then handler of a fetch: store once per key
storeWeatherData(weatherDataMap, key, data) ==
    IF key \in DOMAIN weatherDataMap THEN weatherDataMap
    ELSE (key :> data) @@ weatherDataMap

\* the .catch handler, were it to store a default record for the failed key
fetchFailed_StoresDefault(weatherDataMap, key) ==
    (key :> IF SubSeq(key, 1, Len(StrRealtime)) = StrRealtime THEN RealtimeMild ELSE ForecastEmpty)
        @@ weatherDataMap

\* the .catch handler of a fetch: log only
fetchFailed(weatherDataMap, key) == weatherDataMap

-----------------------------------------------------------------------------
(* Actions *)

\* the caller of cycle c, were it to await the cycle outside try/catch: a
\* cycle that throws takes the schedule down with it
Resume_Uncaught(c, cy) ==
    /\ cycles' = [cycles EXCEPT ![c] = cy]
    /\ sched' = IF cy.pc = "failed" THEN "stopped"
              ELSE IF c = 1 /\ cy.pc \in Terminal THEN "cron" ELSE sched

\* the caller of cycle c (StartWebServer for the first one) resumes when it ends
Resume(c, cy) ==
    /\ cycles' = [cycles EXCEPT ![c] = cy]
    /\ sched' = IF c = 1 /\ cy.pc \in Terminal THEN "cron" ELSE sched

\* index.ts StartWebServer: the startup cycle is started and awaited
StartWebServer ==
    /\ sched = "boot"
    /\ cycles' = <<NewCycle>>
    /\ sched' = "startup"
    /\ UNCHANGED <<stored, call>>

\* GET /health of the alert store settles
HealthAlertsSettled(c) ==
    /\ c \in DOMAIN cycles
    /\ cycles[c].pc = "health"
    /\ cycles[c].alertsHealth = "inflight"
    /\ \E h \in {"healthy", "unhealthy"} :
           Resume(c, performHealthChecks([cycles[c] EXCEPT !.alertsHealth = h]))
    /\ UNCHANGED <<stored, call>>

\* GET /health of the weather service settles
HealthWeatherSettled(c) ==
    /\ c \in DOMAIN cycles
    /\ cycles[c].pc = "health"
    /\ cycles[c].weatherHealth = "inflight"
    /\ \E h \in {"healthy", "unhealthy"} :
           Resume(c, performHealthChecks([cycles[c] EXCEPT !.weatherHealth = h]))
    /\ UNCHANGED <<stored, call>>

\* GET alerts?lastState=not_triggered settles
PendingAlertsSettled(c, lists) ==
    /\ c \in DOMAIN cycles
    /\ cycles[c].pc = "pending"
    /\ \E outcome \in PendingOutcomes(lists) :
           Resume(c, afterFetchNotTriggeredAlerts(cycles[c], outcome))
    /\ UNCHANGED <<stored, call>>

\* the data a weather request may be answered with
Samples(request) ==
    IF request.path = "weather/realtime" THEN RealtimeSamples ELSE ForecastSamples

\* one weather fetch settles: fulfilled with data, or rejected
WeatherFetchSettled(c) ==
    /\ c \in DOMAIN cycles
    /\ cycles[c].pc = "weather"
    /\ \E i \in DOMAIN cycles[c].fetches :
         /\ cycles[c].fetches[i].status = "inflight"
         /\ \E outcome \in {Threw} \cup {Returned(d) : d \in Samples(cycles[c].fetches[i].request[1])} :
              LET f == cycles[c].fetches[i]
                  cy == [cycles[c] EXCEPT
                            !.fetches[i].status = IF outcome = Threw THEN "failed" ELSE "ok",
                            !.fetches[i].data = outcome,
                            !.weatherDataMap = IF outcome = Threw
                                               THEN fetchFailed(@, f.key)
                                               ELSE storeWeatherData(@, f.key, outcome[1])]
              IN  Resume(c, evaluateAndUpdate(cy))
    /\ UNCHANGED <<stored, call>>

\* the ids a bulk update that reports modifiedCount m may have modified
Modified(alertIds, outcome) ==
    IF outcome.transport = "ok" /\ outcome.success
    THEN {S \in SUBSET {alertIds[i] : i \in DOMAIN alertIds} :
              Cardinality(S) = Min(outcome.modifiedCount, Len(alertIds))}
    ELSE {{}}

\* one PATCH alerts/bulk-update settles
BatchUpdateSettled(c) ==
    /\ c \in DOMAIN cycles
    /\ cycles[c].pc = "bulk"
    /\ \E i \in DOMAIN cycles[c].batches :
         /\ cycles[c].batches[i].result = None
         /\ \E outcome \in BatchOutcomes(Len(cycles[c].batches[i].alertIds)) :
              LET b == cycles[c].batches[i]
                  cy == [cycles[c] EXCEPT !.batches[i].result =
                            Some(createBatchUpdateRequest(b.state, b.alertIds, outcome))]
              IN  /\ Resume(c, IF \A j \in DOMAIN cy.batches : cy.batches[j].result # None
                               THEN afterUpdateMultiAlerts(cy) ELSE cy)
                  /\ \E S \in Modified(b.alertIds, outcome) :
                       stored' = [id \in DOMAIN stored |-> IF id \in S THEN b.state ELSE stored[id]]
    /\ UNCHANGED call

\* no pure function is applied on its own while the service runs
NoCall == [fn |-> "none"]

Init ==
    /\ cycles = <<>>
    /\ stored = [id \in AlertIds |-> "not_triggered"]
    /\ sched = "boot"
    /\ call = NoCall

\* the startup cycle, with every list of pending alerts up to MaxAlerts
Next ==
    \/ StartWebServer
    \/ HealthAlertsSettled(1)
    \/ HealthWeatherSettled(1)
    \/ PendingAlertsSettled(1, AlertLists(StoreAlerts, MaxAlerts))
    \/ WeatherFetchSettled(1)
    \/ BatchUpdateSettled(1)

Spec == Init /\ [][Next]_vars

\* the alerts of the store in the runs with fairness: in a city, at
\* coordinates, realtime and forecast, hourly and daily, without a location
LiveAlerts == {AlertA, AlertB, AlertC, AlertE, AlertF}

\* the startup cycle over the pending lists of that store
NextLive ==
    \/ StartWebServer
    \/ HealthAlertsSettled(1)
    \/ HealthWeatherSettled(1)
    \/ PendingAlertsSettled(1, AlertLists(LiveAlerts, MaxAlerts))
    \/ WeatherFetchSettled(1)
    \/ BatchUpdateSettled(1)

\* a weather fetch of the startup cycle is in flight: the states in which
\* WeatherFetchSettled(1) is enabled
WeatherFetchInFlight ==
    /\ 1 \in DOMAIN cycles
    /\ cycles[1].pc = "weather"
    /\ \E i \in DOMAIN cycles[1].fetches : cycles[1].fetches[i].status = "inflight"

\* every remote call the startup cycle awaits settles at some time: weak
\* fairness of each settle step (for the weather fetches with the enabling
\* condition written as the state predicate above)
RemoteCallsSettle ==
    /\ WF_vars(HealthAlertsSettled(1))
    /\ WF_vars(HealthWeatherSettled(1))
    /\ WF_vars(PendingAlertsSettled(1, AlertLists(LiveAlerts, MaxAlerts)))
    /\ ([]<>~WeatherFetchInFlight \/ []<><<WeatherFetchSettled(1)>>_vars)
    /\ WF_vars(BatchUpdateSettled(1))

SpecLive == Init /\ [][NextLive]_vars /\ RemoteCallsSettle

-----------------------------------------------------------------------------
(* index.ts: the startup cycle, then the cron schedule.  The cron callback
   starts a cycle on every tick; nothing in it waits for an earlier cycle. *)

\* cycles started in all: the startup cycle and the cron ticks
MaxCycles == 3

\* the alerts the store holds in the scheduled runs
SchedAlerts == {AlertA}

\* setupCronJob's callback: a tick starts runEvaluationCycle
CronTick ==
    /\ sched = "cron"
    /\ Len(cycles) < MaxCycles
    /\ cycles' = Append(cycles, NewCycle)
    /\ UNCHANGED <<stored, sched, call>>

NextSched ==
    \/ StartWebServer
    \/ CronTick
    \/ \E c \in 1..MaxCycles :
          \/ HealthAlertsSettled(c)
          \/ HealthWeatherSettled(c)
          \/ PendingAlertsSettled(c, AlertLists(SchedAlerts, MaxAlerts))
          \/ WeatherFetchSettled(c)
          \/ BatchUpdateSettled(c)

SpecSched == Init /\ [][NextSched]_vars


-----------------------------------------------------------------------------
(* The pure functions on their own: AlertEvaluationService and
   weatherDataExtractor applied once to arguments drawn from bounded sets.
   `call` holds the arguments and, once the function has been applied, its
   result. *)

\* longest alert list evaluateAlerts is applied to
MaxEvalLen == 2

\* every list of at most n of the alerts S, in every order, no alert twice
InjectiveLists(S, n) ==
    UNION {{l \in [1..k -> S] : \A i, j \in 1..k : l[i] = l[j] => i = j} : k \in 0..n}

\* hourly forecast on a parameter forecasts do not carry
AlertI == [id |-> "i", type |-> "forecast", parameter |-> "pressure", operator |-> "<",
           threshold |-> 100, location |-> AtCoordinates(30, 31), timestep |-> Some(Str1h)]
\* a parameter name outside the enumerated set
AlertJ == [id |-> "j", type |-> "realtime", parameter |-> "dewPoint", operator |-> "<",
           threshold |-> 100000, location |-> InCity(CityCairo), timestep |-> None]

\* an operator outside the enumerated set, on a condition '>=' would meet
AlertO == [id |-> "o", type |-> "realtime", parameter |-> "temperature", operator |-> "=>",
           threshold |-> 0, location |-> InCity(CityCairo), timestep |-> None]

\* the alerts evaluateAlerts is applied to: those of the store at (30,31) and
\* in Cairo, without location, and the three above
EvalAlerts == (StoreAlerts \ {AlertD}) \cup {AlertI, AlertJ, AlertO}

\* the weather-map keys the alerts of EvalAlerts are looked up under
EvalKeys ==
    {weatherDataKey(al, createLocationKey(al.location)[1]) :
        al \in {x \in EvalAlerts : createLocationKey(x.location) # Threw}}

\* the n-th record a key of the weather map may hold
SampleOf(key, n) ==
    IF SubSeq(key, 1, Len(StrRealtime)) = StrRealtime
    THEN (IF n = 1 THEN RealtimeHot ELSE RealtimeMild)
    ELSE (IF n = 1 THEN ForecastDry ELSE ForecastEmpty)

\* every weather map over EvalKeys: each key absent or holding a record of its kind
WeatherMaps ==
    {[k \in {j \in EvalKeys : ch[j] # 0} |-> SampleOf(k, ch[k])] : ch \in [EvalKeys -> 0..2]}

\* the calls of evaluateAlerts on lists of up to n alerts
EvaluateAlertsCalls(n) ==
    {[fn |-> "evaluateAlerts", alerts |-> l, weatherDataMap |-> m, result |-> None] :
        l \in InjectiveLists(EvalAlerts, n), m \in WeatherMaps}

\* evaluateAlerts(alerts, weatherDataMap) is applied
EvaluateAlerts ==
    /\ call.fn = "evaluateAlerts"
    /\ call.result = None
    /\ call' = [call EXCEPT !.result = Returned(evaluateAlerts(call.alerts, call.weatherDataMap))]
    /\ UNCHANGED <<cycles, stored, sched>>

\* longest alert list groupAlertsByLocation is applied to
MaxGroupLen == 3

\* latitude beyond the pole
AlertK == [id |-> "k", type |-> "realtime", parameter |-> "temperature", operator |-> ">",
           threshold |-> 3000, location |-> AtCoordinates(95, 31), timestep |-> None]
\* a city of white space only
AlertL == [id |-> "l", type |-> "realtime", parameter |-> "temperature", operator |-> ">",
           threshold |-> 3000, location |-> InCity(<<" ">>), timestep |-> None]
\* an empty city
AlertM == [id |-> "m", type |-> "forecast", parameter |-> "temperature", operator |-> ">",
           threshold |-> 3000, location |-> InCity(<<>>), timestep |-> Some(Str1h)]
\* a latitude without longitude
AlertN == [id |-> "n", type |-> "realtime", parameter |-> "temperature", operator |-> ">",
           threshold |-> 3000, location |-> [lat |-> Some(30), lon |-> None, city |-> None],
           timestep |-> None]

\* the alerts groupAlertsByLocation is applied to
GroupAlerts ==
    {AlertA, AlertB, AlertC, AlertD, AlertE, AlertG, AlertK, AlertL, AlertM, AlertN}

GroupAlertsByLocationCalls ==
    {[fn |-> "groupAlertsByLocation", alerts |-> l, result |-> None] :
        l \in InjectiveLists(GroupAlerts, MaxGroupLen)}

\* groupAlertsByLocation(alerts) is applied
GroupAlertsByLocation ==
    /\ call.fn = "groupAlertsByLocation"
    /\ call.result = None
    /\ call' = [call EXCEPT !.result = Returned(groupAlertsByLocation(call.alerts))]
    /\ UNCHANGED <<cycles, stored, sched>>

\* the locations createLocationKey is applied to
LocationSamples ==
    {AtCoordinates(lat, lon) : lat \in {-30, 3, 30, 95, 303}, lon \in {-31, 1, 31}}
    \cup {InCity(city) : city \in {CityCairo, CityCairoPadded, <<"C","A","I","R","O"," ">>,
                                    <<"c","a","i","r","o">>, <<"G","i","z","a">>,
                                    <<" ">>, <<" "," ">>, <<>>, CityLikeCoordinates}}
    \cup {NoLocation,
          [lat |-> Some(30), lon |-> Some(31), city |-> Some(CityCairo)],
          [lat |-> Some(30), lon |-> Some(31), city |-> Some(<<"G","i","z","a">>)],
          [lat |-> Some(30), lon |-> None, city |-> Some(CityCairo)],
          [lat |-> None, lon |-> Some(31), city |-> Some(CityCairoPadded)]}

CreateLocationKeyCalls ==
    {[fn |-> "createLocationKey", locations |-> <<l1, l2>>, result |-> None] :
        l1 \in LocationSamples, l2 \in LocationSamples}

\* createLocationKey(location) is applied to the locations of two alerts
CreateLocationKey ==
    /\ call.fn = "createLocationKey"
    /\ call.result = None
    /\ call' = [call EXCEPT !.result = Returned([i \in DOMAIN call.locations |->
                                                  createLocationKey(call.locations[i])])]
    /\ UNCHANGED <<cycles, stored, sched>>

\* largest value and threshold evaluateCondition is applied to, in hundredths
MaxValue == 3

\* the operators of an alert, and one outside the enumerated set
Operators == {">", "<", ">=", "<=", "==", "!="}
OperatorSamples == Operators \cup {"=>"}

EvaluateConditionCalls ==
    {[fn |-> "evaluateCondition", actualValue |-> v, threshold |-> t, result |-> None] :
        v \in -MaxValue..MaxValue, t \in -MaxValue..MaxValue}

\* evaluateCondition(actualValue, operator, threshold) is applied, once per operator
EvaluateCondition ==
    /\ call.fn = "evaluateCondition"
    /\ call.result = None
    /\ call' = [call EXCEPT !.result = Returned([operator \in OperatorSamples |->
                    evaluateCondition(call.actualValue, operator, call.threshold)])]
    /\ UNCHANGED <<cycles, stored, sched>>

\* the parameter names of an alert, and one outside the enumerated set
ParameterSamples == currentWeatherParams \cup {"dewPoint"}

\* a series of one interval
ForecastWet == [intervals |-> <<IntervalWet>>]

ExtractWeatherParameterCalls ==
    {[fn |-> "extractWeatherParameter", data |-> d, parameter |-> p,
      isCurrentWeather |-> TRUE, result |-> None] :
        d \in RealtimeSamples, p \in ParameterSamples}
    \cup {[fn |-> "extractWeatherParameter", data |-> d, parameter |-> p,
           isCurrentWeather |-> FALSE, result |-> None] :
        d \in ForecastSamples \cup {ForecastWet}, p \in ParameterSamples}

\* extractWeatherParameter(data, parameter, isCurrentWeather) is applied;
\* call.result is <<>> when it throws and <<v>> when it returns v
ExtractWeatherParameter ==
    /\ call.fn = "extractWeatherParameter"
    /\ call.result = None
    /\ call' = [call EXCEPT !.result = Returned(
                    extractWeatherParameter(call.data, call.parameter, call.isCurrentWeather))]
    /\ UNCHANGED <<cycles, stored, sched>>

\* thresholds around the values a forecast stands in for what it lacks (0, 10000)
ThresholdSamples == {-1, 0, 1, 5000, 9999, 10000, 10001}

\* the alerts evaluateAlert is applied to: every kind, parameter and operator
SingleAlerts ==
    {[id |-> "s", type |-> type, parameter |-> p, operator |-> op, threshold |-> t,
      location |-> AtCoordinates(30, 31), timestep |-> None] :
        type \in {"realtime", "forecast"}, p \in ParameterSamples,
        op \in OperatorSamples, t \in ThresholdSamples}

\* longest forecast series evaluateAlert is applied to
MaxSeriesLen == 2

\* the forecast series of up to n intervals, each dry or wet
ForecastSeries(n) ==
    {[intervals |-> s] : s \in UNION {[1..k -> {IntervalDry, IntervalWet}] : k \in 0..n}}

EvaluateAlertCalls ==
    {[fn |-> "evaluateAlert", alert |-> al, weatherData |-> d, result |-> None] :
        al \in {x \in SingleAlerts : x.type = "realtime"}, d \in RealtimeSamples}
    \cup {[fn |-> "evaluateAlert", alert |-> al, weatherData |-> d, result |-> None] :
        al \in {x \in SingleAlerts : x.type = "forecast"}, d \in ForecastSeries(MaxSeriesLen)}

\* evaluateAlert(alert, weatherData) is applied: the state it returns and the
\* calls it made
EvaluateAlert ==
    /\ call.fn = "evaluateAlert"
    /\ call.result = None
    /\ call' = [call EXCEPT !.result = Returned(
                    [state |-> evaluateAlert(call.alert, call.weatherData),
                     calls |-> evaluateAlertCalls(call.alert, call.weatherData)])]
    /\ UNCHANGED <<cycles, stored, sched>>

\* most ids in one bulk update processBatchUpdateResult is applied to
MaxBatchLen == 3

\* a settled bulk update: the ids requested, in every order, and what the
\* store answered
ProcessBatchUpdateResultCalls ==
    UNION {{[fn |-> "processBatchUpdateResult", outcome |-> o,
             batch |-> createBatchUpdateRequest("triggered", l, o), result |-> None] :
               o \in BatchOutcomes(Len(l))} :
           l \in InjectiveLists({"a", "b", "c", "d"}, MaxBatchLen) \ {<<>>}}

\* processBatchUpdateResult(result) is applied
ProcessBatchUpdateResult ==
    /\ call.fn = "processBatchUpdateResult"
    /\ call.result = None
    /\ call' = [call EXCEPT !.result = Returned(processBatchUpdateResult(call.batch))]
    /\ UNCHANGED <<cycles, stored, sched>>

\* a city whose characters read as query parameters
CityLikeQuery == <<"a","&","l","a","t","=","1">>

\* the locations and timesteps the two weather requests are built for
WeatherRequestCalls ==
    {[fn |-> "getWeather", location |-> l, timestep |-> t, result |-> None] :
        l \in LocationSamples \cup {InCity(CityLikeQuery),
                                    [lat |-> Some(3), lon |-> Some(1),
                                     city |-> Some(CityLikeQuery)]},
        t \in {Str1h, Str1d}}

\* getRealTimeWeather(location) and getForecastWeather(location, timestep)
\* are called: the request each sends, or the fault it ends with before sending
WeatherRequest ==
    /\ call.fn = "getWeather"
    /\ call.result = None
    /\ call' = [call EXCEPT !.result = Returned(
                    [realtime |-> getRealTimeWeather(call.location),
                     forecast |-> getForecastWeather(call.location, call.timestep)])]
    /\ UNCHANGED <<cycles, stored, sched>>

\* the calls the pure functions are applied to, evaluateAlerts on lists of up
\* to n alerts
PureCalls(n) ==
    EvaluateAlertsCalls(n) \cup GroupAlertsByLocationCalls \cup CreateLocationKeyCalls
        \cup EvaluateConditionCalls \cup ExtractWeatherParameterCalls
        \cup EvaluateAlertCalls \cup ProcessBatchUpdateResultCalls
        \cup WeatherRequestCalls

InitPure ==
    /\ cycles = <<>>
    /\ stored = [id \in AlertIds |-> "not_triggered"]
    /\ sched = "boot"
    /\ call \in PureCalls(MaxEvalLen)

NextPure ==
    \/ EvaluateAlerts
    \/ GroupAlertsByLocation
    \/ CreateLocationKey
    \/ EvaluateCondition
    \/ ExtractWeatherParameter
    \/ EvaluateAlert
    \/ ProcessBatchUpdateResult
    \/ WeatherRequest

SpecPure == InitPure /\ [][NextPure]_vars

-----------------------------------------------------------------------------
(* AlertsTriggerService.updateAlertStatesIndividually on its own: a call of
   the function with an evaluation result map, then its PUTs settling in any
   order. *)

MaxFallbackLen == 3

\* evaluation result maps of up to n entries
EvaluationResultMaps(n) ==
    UNION {{[i \in DOMAIN l |-> [key |-> l[i], value |-> v[i]]] :
               v \in [DOMAIN l -> {"triggered", "not_triggered"}]} :
           l \in InjectiveLists({"a", "b", "c", "d"}, n)}

\* a cycle that has evaluated its alerts to evaluationResults
EvaluatedCycle(evaluationResults) ==
    [NewCycle EXCEPT !.alertsHealth = "healthy", !.weatherHealth = "healthy",
                     !.pending = "ok", !.evaluated = TRUE,
                     !.evaluationResults = evaluationResults]

InitFallback ==
    /\ \E evaluationResults \in EvaluationResultMaps(MaxFallbackLen) :
           cycles = <<updateAlertStatesIndividually(EvaluatedCycle(evaluationResults))>>
    /\ stored = [id \in AlertIds |-> "not_triggered"]
    /\ sched = "startup"
    /\ call = NoCall

\* one PUT alerts/:id settles
UpdateAlertStateSettled(c) ==
    /\ c \in DOMAIN cycles
    /\ cycles[c].pc = "fallback"
    /\ \E i \in DOMAIN cycles[c].updatePromises :
         /\ cycles[c].updatePromises[i].status = "inflight"
         /\ \E outcome \in UpdateOutcomes :
              LET u == cycles[c].updatePromises[i]
              IN  /\ Resume(c, afterUpdateAlertState(cycles[c], i, outcome))
                  /\ stored' = IF outcome = "ok"
                               THEN [stored EXCEPT ![u.alertId] = u.newState]
                               ELSE stored
    /\ UNCHANGED call

NextFallback == UpdateAlertStateSettled(1)

SpecFallback == InitFallback /\ [][NextFallback]_vars

-----------------------------------------------------------------------------
(* Vocabulary of the properties *)

IsWrite(r) == r.method \in {"PATCH", "PUT"}
IsWeatherFetch(r) == r.api = "weather" /\ r.path # "health"
IsPendingFetch(r) == r.api = "alerts" /\ r.method = "GET" /\ r.path = "alerts"

RequestsOf(cy, Is(_)) == {i \in DOMAIN cy.requests : Is(cy.requests[i])}

\* the ids a cycle has sent in write-back requests
WrittenIds(cy) ==
    UNION {{cy.requests[i].ids[j] : j \in DOMAIN cy.requests[i].ids} : i \in RequestsOf(cy, IsWrite)}

ResultOf(cy, id) == cy.evaluationResults[CHOOSE i \in DOMAIN cy.evaluationResults :
                                            cy.evaluationResults[i].key = id].value

TriggeredIds(cy) ==
    {cy.evaluationResults[i].key : i \in {j \in DOMAIN cy.evaluationResults :
                                             cy.evaluationResults[j].value = "triggered"}}

HealthSettled(cy) == cy.alertsHealth # "inflight" /\ cy.weatherHealth # "inflight"
BothHealthy(cy) == cy.alertsHealth = "healthy" /\ cy.weatherHealth = "healthy"
SomeUnhealthy(cy) == cy.alertsHealth = "unhealthy" \/ cy.weatherHealth = "unhealthy"

FetchesSettled(cy) == \A i \in DOMAIN cy.fetches : cy.fetches[i].status \in {"ok", "failed"}
BatchesSettled(cy) == \A i \in DOMAIN cy.batches : cy.batches[i].result # None
TransportFailed(cy) ==
    \E i \in DOMAIN cy.batches :
        cy.batches[i].result # None /\ ~cy.batches[i].result[1].success

-----------------------------------------------------------------------------
(* Properties *)

\* C1: if either health check reports unhealthy the cycle fails (as soon as
\* both checks have settled), and it never issues a pending-alert fetch, a
\* weather fetch or a write-back request.
C1_HealthFailFast ==
    \A c \in DOMAIN cycles :
        LET cy == cycles[c]
        IN  SomeUnhealthy(cy) =>
              /\ (HealthSettled(cy) => cy.pc = "failed")
              /\ (~HealthSettled(cy) => cy.pc = "health")
              /\ RequestsOf(cy, IsPendingFetch) = {}
              /\ RequestsOf(cy, IsWeatherFetch) = {}
              /\ RequestsOf(cy, IsWrite) = {}
              /\ cy.pending = "none" /\ cy.fetches = <<>> /\ cy.batches = <<>>
              /\ cy.updatePromises = <<>>

\* the alert store is healthy, the weather service is not, and the cycle has failed
C1_Witness ==
    \E c \in DOMAIN cycles :
        /\ cycles[c].pc = "failed"
        /\ cycles[c].alertsHealth = "healthy"
        /\ cycles[c].weatherHealth = "unhealthy"

\* C2: with both health checks healthy and the pending-alert fetch answered,
\* the cycle never fails, and it has returned as soon as no weather fetch and
\* no write-back request is in flight, whatever those were answered with.
C2_OnlyStage12Fatal ==
    \A c \in DOMAIN cycles :
        LET cy == cycles[c]
        IN  (BothHealthy(cy) /\ cy.pending \in {"ok", "malformed"}) =>
              /\ cy.pc # "failed"
              /\ (cy.pc = "done"
                    \/ ~FetchesSettled(cy)
                    \/ ~BatchesSettled(cy)
                    \/ \E i \in DOMAIN cy.updatePromises : cy.updatePromises[i].status = "inflight")

\* a cycle that returned although a weather fetch failed and the bulk update
\* failed at transport level
C2_Witness ==
    \E c \in DOMAIN cycles :
        /\ cycles[c].pc = "done"
        /\ \E i \in DOMAIN cycles[c].fetches : cycles[c].fetches[i].status = "failed"
        /\ TransportFailed(cycles[c])

\* C3: once a cycle has evaluated, every alert whose weather key was fetched
\* successfully has the result of evaluateAlert on the data that fetch
\* returned, every alert whose key's fetch failed is 'not_triggered', and a
\* failed fetch has neither failed the cycle nor kept any other fetch from
\* being sent and settled.
C3_FetchFailureIsolation ==
    \A c \in DOMAIN cycles :
        LET cy == cycles[c]
        IN  cy.evaluated =>
              /\ \A i \in DOMAIN cy.alerts : \A j \in DOMAIN cy.fetches :
                    LET al == cy.alerts[i]
                        f == cy.fetches[j]
                        lk == createLocationKey(al.location)
                        key == IF al.type = "realtime" THEN StrRealtime \o lk[1]
                               ELSE StrForecast
                                    \o (IF al.timestep = None THEN Str1h ELSE al.timestep[1])
                                    \o <<":">> \o lk[1]
                    IN  (lk # Threw /\ f.key = key) =>
                          /\ f.status = "ok" => ResultOf(cy, al.id) = evaluateAlert(al, f.data[1])
                          /\ f.status = "failed" => ResultOf(cy, al.id) = "not_triggered"
              /\ cy.pc # "failed"
              /\ \A j \in DOMAIN cy.fetches :
                    cy.fetches[j].status \in {"ok", "failed"} /\ cy.fetches[j].request # Threw

\* one fetch failed, another succeeded, and an alert of the latter triggered
C3_Witness ==
    \E c \in DOMAIN cycles :
        LET cy == cycles[c]
        IN  /\ cy.evaluated
            /\ \E i, j \in DOMAIN cy.fetches :
                  /\ cy.fetches[i].status = "failed"
                  /\ cy.fetches[j].status = "ok"
            /\ TriggeredIds(cy) # {}
            /\ \E i \in DOMAIN cy.alerts : ResultOf(cy, cy.alerts[i].id) = "not_triggered"

\* C4: stage order.  The pending-alert fetch is sent only after both health
\* checks returned healthy; weather fetches only after the pending-alert
\* fetch returned; evaluation only after every launched weather fetch has
\* settled; write-back requests only after every alert has been evaluated.
C4_StageOrder ==
    \A c \in DOMAIN cycles :
        LET cy == cycles[c]
        IN  /\ (RequestsOf(cy, IsPendingFetch) # {} \/ cy.pending # "none") => BothHealthy(cy)
            /\ (RequestsOf(cy, IsWeatherFetch) # {} \/ cy.fetches # <<>>) => cy.pending = "ok"
            /\ cy.evaluated => FetchesSettled(cy)
            /\ (RequestsOf(cy, IsWrite) # {} \/ cy.batches # <<>> \/ cy.updatePromises # <<>>) =>
                  /\ cy.evaluated
                  /\ \A i \in DOMAIN cy.alerts :
                        \E j \in DOMAIN cy.evaluationResults :
                            cy.evaluationResults[j].key = cy.alerts[i].id

\* a write-back in flight after several weather fetches, one of which failed
C4_Witness ==
    \E c \in DOMAIN cycles :
        /\ cycles[c].pc = "bulk"
        /\ Len(cycles[c].fetches) >= 2
        /\ \E i \in DOMAIN cycles[c].fetches : cycles[c].fetches[i].status = "failed"

\* C5: the ids a cycle sends in write-back requests are exactly the ids whose
\* evaluation result is 'triggered'; with no 'triggered' result the cycle
\* sends no write-back request, bulk or per-item.
C5_WriteBackExactlyTriggered ==
    \A c \in DOMAIN cycles :
        LET cy == cycles[c]
        IN  /\ cy.evaluated => WrittenIds(cy) = TriggeredIds(cy)
            /\ (cy.evaluated /\ TriggeredIds(cy) = {}) => RequestsOf(cy, IsWrite) = {}
            /\ ~cy.evaluated => RequestsOf(cy, IsWrite) = {}

\* an evaluation with both outcomes, written back
C5_Witness ==
    \E c \in DOMAIN cycles :
        LET cy == cycles[c]
        IN  /\ cy.evaluated
            /\ TriggeredIds(cy) # {}
            /\ \E i \in DOMAIN cy.alerts : ResultOf(cy, cy.alerts[i].id) = "not_triggered"
            /\ RequestsOf(cy, IsWrite) # {}

\* every alert evaluated 'not_triggered' although data was fetched, cycle returned
C5_WitnessNoneTriggered ==
    \E c \in DOMAIN cycles :
        LET cy == cycles[c]
        IN  /\ cy.pc = "done" /\ cy.evaluated /\ TriggeredIds(cy) = {}
            /\ \E i \in DOMAIN cy.fetches : cy.fetches[i].status = "ok"

\* C6: no write-back request of any cycle carries the state 'not_triggered',
\* and no step of any run of cycles, overlapping or not, changes a stored
\* 'triggered' back to 'not_triggered'.
C6_NeverUntriggers ==
    [][/\ \A c \in DOMAIN cycles' : \A i \in RequestsOf(cycles'[c], IsWrite) :
              cycles'[c].requests[i].state = "triggered"
       /\ \A id \in DOMAIN stored : stored[id] = "triggered" => stored'[id] = "triggered"]_vars

\* alert a is stored 'triggered' while two cron cycles overlap: the earlier
\* one still has its bulk update of a in flight, the later one has evaluated
\* a 'not_triggered' and returned without writing
C6_Witness ==
    \E c, d \in DOMAIN cycles :
        /\ 1 < c /\ c < d
        /\ stored["a"] = "triggered"
        /\ cycles[c].pc = "bulk"
        /\ "a" \in WrittenIds(cycles[c])
        /\ cycles[d].pc = "done"
        /\ cycles[d].evaluated
        /\ ResultOf(cycles[d], "a") = "not_triggered"
        /\ RequestsOf(cycles[d], IsWrite) = {}

\* C7 as claimed: when a bulk update fails at transport level, the cycle
\* sends one per-item write for each triggered id (checked once the cycle
\* has returned).
C7_FallbackOnTransportFailure ==
    \A c \in DOMAIN cycles :
        LET cy == cycles[c]
        IN  (cy.pc = "done" /\ TransportFailed(cy)) =>
              \A id \in TriggeredIds(cy) :
                  Cardinality({i \in DOMAIN cy.requests :
                                  cy.requests[i].method = "PUT" /\ cy.requests[i].ids = <<id>>}) = 1

\* C8: the fetch plan.  Per location group one realtime fetch iff the group
\* has a realtime alert and one forecast fetch per distinct timestep of its
\* forecast alerts; no other fetch; each launched fetch sends one request.
\* The alerts (a), (b), (c) give 2 groups and 3 fetches.
C8_FetchPlan ==
    \A c \in DOMAIN cycles :
        LET cy == cycles[c]
            groups == cy.alertsByLocation
            Has(g, type, t) ==
                \E i \in DOMAIN groups[g].value :
                    /\ groups[g].value[i].type = type
                    /\ type = "forecast" =>
                         (IF groups[g].value[i].timestep = None THEN Str1h
                          ELSE groups[g].value[i].timestep[1]) = t
            Count(key) == Cardinality({j \in DOMAIN cy.fetches : cy.fetches[j].key = key})
        IN  (cy.pending = "ok" /\ cy.alerts # <<>>) =>
              /\ groups = groupAlertsByLocation(cy.alerts)
              /\ \A g \in DOMAIN groups :
                    /\ Count(StrRealtime \o groups[g].key) = IF Has(g, "realtime", <<>>) THEN 1 ELSE 0
                    /\ \A t \in {Str1h, Str1d} :
                          Count(StrForecast \o t \o <<":">> \o groups[g].key)
                              = IF Has(g, "forecast", t) THEN 1 ELSE 0
              /\ \A j \in DOMAIN cy.fetches : \E g \in DOMAIN groups :
                    \/ cy.fetches[j].key = StrRealtime \o groups[g].key
                    \/ \E t \in {Str1h, Str1d} :
                          cy.fetches[j].key = StrForecast \o t \o <<":">> \o groups[g].key
              /\ Cardinality(RequestsOf(cy, IsWeatherFetch)) = Len(cy.fetches)
              /\ {cy.alerts[i] : i \in DOMAIN cy.alerts} = {AlertA, AlertB, AlertC} =>
                    Len(groups) = 2 /\ Len(cy.fetches) = 3

\* two forecast alerts of one location and one timestep: (b) and (h), with
\* the realtime alert (c) of the same location
C8_Witness ==
    \E c \in DOMAIN cycles :
        /\ {cycles[c].alerts[i] : i \in DOMAIN cycles[c].alerts} = {AlertB, AlertH, AlertC}
        /\ Len(cycles[c].fetches) = 2
        /\ Len(cycles[c].alertsByLocation) = 1

\* C9: the weather-data map of a cycle is write-once per key: no step
\* replaces or removes a value it holds; after every step a key whose fetch
\* failed is absent and a key whose fetch succeeded holds that fetch's data.
C9_WeatherMapWriteOnce ==
    [][\A c \in DOMAIN cycles :
          /\ \A k \in DOMAIN cycles[c].weatherDataMap :
                /\ k \in DOMAIN cycles'[c].weatherDataMap
                /\ cycles'[c].weatherDataMap[k] = cycles[c].weatherDataMap[k]
          /\ \A j \in DOMAIN cycles'[c].fetches :
                LET f == cycles'[c].fetches[j]
                IN  /\ f.status = "failed" => f.key \notin DOMAIN cycles'[c].weatherDataMap
                    /\ f.status = "ok" =>
                          /\ f.key \in DOMAIN cycles'[c].weatherDataMap
                          /\ cycles'[c].weatherDataMap[f.key] = f.data[1]
                    /\ f.status = "inflight" => f.key \notin DOMAIN cycles'[c].weatherDataMap]_vars

\* a map holding one key while another fetch has failed and a third is in flight
C9_Witness ==
    \E c \in DOMAIN cycles :
        /\ DOMAIN cycles[c].weatherDataMap # {}
        /\ \E i, j \in DOMAIN cycles[c].fetches :
              cycles[c].fetches[i].status = "failed" /\ cycles[c].fetches[j].status = "inflight"

\* C10: the end-to-end scenario.  Pending alerts (a), (b), (c); Cairo answers
\* temperature 35, (30,31) answers uvIndex 9, and the hourly forecast of
\* (30,31) either fails or answers humidity 15.  The cycle writes back
\* exactly {a, c} when the forecast fetch failed and {a, b, c} when it
\* succeeded.
C10_Scenario ==
    \A c \in DOMAIN cycles :
        LET cy == cycles[c]
            F(key) == cy.fetches[CHOOSE j \in DOMAIN cy.fetches : cy.fetches[j].key = key]
            cairo == F(StrRealtime \o <<"c","a","i","r","o">>)
            here == F(StrRealtime \o <<"3","0",",","3","1">>)
            hourly == F(StrForecast \o Str1h \o <<":">> \o <<"3","0",",","3","1">>)
        IN  ( /\ cy.evaluated
              /\ Len(cy.alerts) = 3
              /\ {cy.alerts[i] : i \in DOMAIN cy.alerts} = {AlertA, AlertB, AlertC}
              /\ cairo.status = "ok" /\ cairo.data[1].temperature = 3500
              /\ here.status = "ok" /\ here.data[1].uvIndex = Some(900)
              /\ \/ hourly.status = "failed"
                 \/ /\ hourly.status = "ok"
                    /\ hourly.data[1].intervals # <<>>
                    /\ hourly.data[1].intervals[1].humidity = 1500 )
            => WrittenIds(cy) = IF hourly.status = "failed" THEN {"a", "c"} ELSE {"a", "b", "c"}

\* the scenario with the hourly forecast fetch failed, cycle returned
C10_Witness ==
    \E c \in DOMAIN cycles :
        LET cy == cycles[c]
        IN  /\ cy.pc = "done"
            /\ {cy.alerts[i] : i \in DOMAIN cy.alerts} = {AlertA, AlertB, AlertC}
            /\ WrittenIds(cy) = {"a", "c"}
            /\ \E j \in DOMAIN cy.fetches :
                  /\ cy.fetches[j].key = StrForecast \o Str1h \o <<":">> \o <<"3","0",",","3","1">>
                  /\ cy.fetches[j].status = "failed"

\* the scenario with every fetch succeeded, cycle returned
C10_WitnessAllFetched ==
    \E c \in DOMAIN cycles :
        LET cy == cycles[c]
        IN  /\ cy.pc = "done"
            /\ {cy.alerts[i] : i \in DOMAIN cy.alerts} = {AlertA, AlertB, AlertC}
            /\ WrittenIds(cy) = {"a", "b", "c"}

\* C13: when the pending-alert fetch returns an empty list the cycle ends
\* successfully, and it has issued no weather fetch and no write-back request.
C13_EmptyListEndsCycle ==
    \A c \in DOMAIN cycles :
        LET cy == cycles[c]
        IN  (cy.pending \in {"ok", "malformed"} /\ cy.alerts = <<>>) =>
              /\ cy.pc = "done"
              /\ RequestsOf(cy, IsWeatherFetch) = {}
              /\ RequestsOf(cy, IsWrite) = {}

\* the store answered with an empty list and the cycle has returned
C13_Witness ==
    \E c \in DOMAIN cycles :
        /\ cycles[c].pending = "ok"
        /\ cycles[c].alerts = <<>>
        /\ cycles[c].pc = "done"
        /\ Cardinality(RequestsOf(cycles[c], IsPendingFetch)) = 1

\* C14: when the pending-alert request rejects the cycle fails, and it has
\* issued no weather fetch and no write-back request; a cycle that has failed
\* has sent no state write.
C14_PendingFetchFailureFatal ==
    \A c \in DOMAIN cycles :
        LET cy == cycles[c]
        IN  /\ cy.pending = "rejected" =>
                  /\ cy.pc = "failed"
                  /\ RequestsOf(cy, IsWeatherFetch) = {}
                  /\ RequestsOf(cy, IsWrite) = {}
            /\ cy.pc = "failed" => RequestsOf(cy, IsWrite) = {}

\* both services healthy, the pending-alert request rejected, the cycle failed
C14_Witness ==
    \E c \in DOMAIN cycles :
        /\ BothHealthy(cycles[c])
        /\ cycles[c].pending = "rejected"
        /\ cycles[c].pc = "failed"

-----------------------------------------------------------------------------
(* Properties of the pure functions *)

\* the comparison an operator stands for, on hundredths (0.01 is 1)
Holds(operator, value, threshold) ==
    CASE operator = ">"  -> value > threshold
      [] operator = "<"  -> value < threshold
      [] operator = ">=" -> ~(value < threshold)
      [] operator = "<=" -> ~(value > threshold)
      [] operator = "==" -> value - threshold < 1 /\ threshold - value < 1
      [] operator = "!=" -> value - threshold >= 1 \/ threshold - value >= 1
      [] OTHER -> FALSE

\* the key of an alert's own weather record: its kind, its timestep when
\* forecast (hourly when it has none), its location key; None without location key
OwnKey(al) ==
    LET k == createLocationKey(al.location)
    IN  IF k = Threw THEN None
        ELSE Some((IF al.type = "realtime" THEN StrRealtime
                   ELSE StrForecast \o (IF al.timestep = None THEN Str1h ELSE al.timestep[1])
                            \o <<":">>) \o k[1])

Evaluated == call.fn = "evaluateAlerts" /\ call.result # None

\* C11: triggering is sound.  In the result of evaluateAlerts an alert is
\* 'triggered' only if the weather map holds a record under the alert's own
\* key, the parameter is supported for the alert's kind and the operator holds
\* between the value extracted from that record and the threshold; an alert
\* whose key is absent from the map is 'not_triggered'.
C11_TriggeringSound ==
    Evaluated =>
        \A i \in DOMAIN call.alerts :
            LET al == call.alerts[i]
                r == MapGet(call.result[1], al.id)
                key == OwnKey(al)
                m == call.weatherDataMap
                isCurrent == al.type = "realtime"
            IN  /\ r = "triggered" =>
                      /\ key # None
                      /\ key[1] \in DOMAIN m
                      /\ isParameterSupported(al.parameter, isCurrent)
                      /\ LET v == extractWeatherParameter(m[key[1]], al.parameter, isCurrent)
                         IN  v # Threw /\ Holds(al.operator, v[1], al.threshold)
                /\ (key = None \/ key[1] \notin DOMAIN m) => r = "not_triggered"

\* one alert triggered on its record next to one whose key the map lacks
C11_Witness ==
    /\ Evaluated
    /\ \E i, j \in DOMAIN call.alerts :
          /\ MapGet(call.result[1], call.alerts[i].id) = "triggered"
          /\ OwnKey(call.alerts[j]) # None
          /\ OwnKey(call.alerts[j])[1] \notin DOMAIN call.weatherDataMap
          /\ MapGet(call.result[1], call.alerts[j].id) = "not_triggered"

\* the evaluation of the alert faults: unsupported parameter for its kind,
\* unknown parameter name, no location key, or a forecast series without intervals
Faults(al, m) ==
    \/ ~isParameterSupported(al.parameter, al.type = "realtime")
    \/ al.parameter \notin currentWeatherParams
    \/ OwnKey(al) = None
    \/ /\ al.type = "forecast"
       /\ OwnKey(al)[1] \in DOMAIN m
       /\ m[OwnKey(al)[1]].intervals = <<>>

\* C12: evaluation is fail-safe and total.  evaluateAlerts returns a result
\* holding one state per alert of the list; an alert whose evaluation faults
\* gets 'not_triggered'; the state of an alert is the one it gets when it is
\* evaluated alone against the same map, whatever the other alerts do.
C12_EvaluationFailSafe ==
    (call.fn = "evaluateAlerts" /\ call.result # None) =>
        /\ Len(call.result[1]) = Len(call.alerts)
        /\ \A i \in DOMAIN call.alerts :
              LET al == call.alerts[i]
              IN  /\ MapHas(call.result[1], al.id)
                  /\ MapGet(call.result[1], al.id) \in {"triggered", "not_triggered"}
                  /\ Faults(al, call.weatherDataMap) =>
                        MapGet(call.result[1], al.id) = "not_triggered"
                  /\ MapGet(call.result[1], al.id)
                        = MapGet(evaluateAlerts(<<al>>, call.weatherDataMap), al.id)

\* a forecast alert on an empty series faults next to an alert that triggers
C12_Witness ==
    /\ Evaluated
    /\ \E i, j \in DOMAIN call.alerts :
          /\ call.alerts[i].type = "forecast"
          /\ isParameterSupported(call.alerts[i].parameter, FALSE)
          /\ Faults(call.alerts[i], call.weatherDataMap)
          /\ OwnKey(call.alerts[i])[1] \in DOMAIN call.weatherDataMap
          /\ MapGet(call.result[1], call.alerts[j].id) = "triggered"

\* a location the service can look weather up for: coordinates within
\* [-90, 90] x [-180, 180], or a city that is not empty once trimmed
ValidLocation(location) ==
    \/ /\ location.lat # None /\ location.lon # None
       /\ -90 <= location.lat[1] /\ location.lat[1] <= 90
       /\ -180 <= location.lon[1] /\ location.lon[1] <= 180
    \/ location.city # None /\ trim(location.city[1]) # <<>>

Grouped == call.fn = "groupAlertsByLocation" /\ call.result # None

\* the places (group, position) of an alert in a grouping
PlacesOf(grouped, al) ==
    {pl \in UNION {{<<g, p>> : p \in DOMAIN grouped[g].value} : g \in DOMAIN grouped} :
        grouped[pl[1]].value[pl[2]] = al}

\* the position of an alert in a list that holds it once
IndexIn(alerts, al) == CHOOSE i \in DOMAIN alerts : alerts[i] = al

\* C15: groupAlertsByLocation is lossless and order-preserving for alerts with
\* valid locations.  Every such alert of the input is in exactly one group, the
\* one whose key is its location key; the alerts of a group are alerts of the
\* input in their input order; no group is empty and no key names two groups.
C15_GroupingLossless ==
    Grouped =>
        LET grouped == call.result[1]
        IN  /\ \A i \in DOMAIN call.alerts :
                  ValidLocation(call.alerts[i].location) =>
                      /\ Cardinality(PlacesOf(grouped, call.alerts[i])) = 1
                      /\ \A pl \in PlacesOf(grouped, call.alerts[i]) :
                            Returned(grouped[pl[1]].key)
                                = createLocationKey(call.alerts[i].location)
            /\ \A g \in DOMAIN grouped :
                  /\ grouped[g].value # <<>>
                  /\ \A h \in DOMAIN grouped : grouped[g].key = grouped[h].key => g = h
                  /\ \A p \in DOMAIN grouped[g].value :
                        \E i \in DOMAIN call.alerts : call.alerts[i] = grouped[g].value[p]
                  /\ \A p, q \in DOMAIN grouped[g].value :
                        p < q => IndexIn(call.alerts, grouped[g].value[p])
                                     < IndexIn(call.alerts, grouped[g].value[q])

\* two alerts of one location with an alert of another location between them
C15_Witness ==
    /\ Grouped
    /\ Len(call.alerts) = 3
    /\ Len(call.result[1]) = 2
    /\ ValidLocation(call.alerts[1].location)
    /\ ValidLocation(call.alerts[2].location)
    /\ call.result[1][1].value = <<call.alerts[1], call.alerts[3]>>
    /\ call.result[1][2].value = <<call.alerts[2]>>

\* the fetches launched for a grouping that were built from this location
FetchesFor(grouped, location) ==
    {i \in DOMAIN fetchPromises(grouped) :
        \/ fetchPromises(grouped)[i].request = getRealTimeWeather(location)
        \/ \E t \in {Str1h, Str1d} :
              fetchPromises(grouped)[i].request = getForecastWeather(location, t)}

\* C16: groupAlertsByLocation strictly excludes invalid-location alerts.  An
\* alert whose coordinates are absent or out of range and whose city is absent,
\* empty or white space only is in no group, and no fetch is issued for it.
C16_InvalidLocationExcluded ==
    Grouped =>
        \A i \in DOMAIN call.alerts :
            ~ValidLocation(call.alerts[i].location) =>
                /\ PlacesOf(call.result[1], call.alerts[i]) = {}
                /\ FetchesFor(call.result[1], call.alerts[i].location) = {}

HasCoordinates(location) == location.lat # None /\ location.lon # None

\* a location given by its city: no coordinate pair, and a city
CityOnly(location) ==
    ~HasCoordinates(location) /\ location.city # None /\ location.city[1] # <<>>

\* two cities are equal once trimmed, ignoring case
SameCity(c1, c2) ==
    /\ Len(trim(c1)) = Len(trim(c2))
    /\ \A i \in DOMAIN trim(c1) : toLowerChar(trim(c1)[i]) = toLowerChar(trim(c2)[i])

Keyed == call.fn = "createLocationKey" /\ call.result # None

\* C17: location-key canonicalization.  Two locations with the same
\* coordinates get the same key; two city-only locations whose cities are
\* equal once trimmed, ignoring case, get the same key; two locations with
\* different coordinates get different keys.
C17_KeyCanonicalization ==
    Keyed =>
        LET l1 == call.locations[1]
            l2 == call.locations[2]
            k1 == call.result[1][1]
            k2 == call.result[1][2]
        IN  /\ (HasCoordinates(l1) /\ HasCoordinates(l2)
                  /\ l1.lat = l2.lat /\ l1.lon = l2.lon) => (k1 # Threw /\ k1 = k2)
            /\ (CityOnly(l1) /\ CityOnly(l2) /\ SameCity(l1.city[1], l2.city[1]))
                  => (k1 # Threw /\ k1 = k2)
            /\ (HasCoordinates(l1) /\ HasCoordinates(l2)
                  /\ (l1.lat # l2.lat \/ l1.lon # l2.lon)) => k1 # k2

\* "Cairo" and " cairo": written differently, one key
C17_Witness ==
    /\ Keyed
    /\ call.locations = <<InCity(CityCairo), InCity(CityCairoPadded)>>
    /\ call.result[1][1] = Returned(<<"c","a","i","r","o">>)
    /\ call.result[1][2] = call.result[1][1]

\* different coordinates whose digits read the same without the comma
C17_WitnessCoordinates ==
    /\ Keyed
    /\ call.locations = <<AtCoordinates(30, 31), AtCoordinates(303, 1)>>
    /\ call.result[1][1] # call.result[1][2]

Conditioned == call.fn = "evaluateCondition" /\ call.result # None

C18_WitnessEqual ==
    /\ Conditioned
    /\ call.actualValue = call.threshold
    /\ call.result[1]["=="]
    /\ ~call.result[1]["!="]

Extracted == call.fn = "extractWeatherParameter" /\ call.result # None

\* C19 as stated: extraction is total over the supported set.  For a realtime
\* observation and for a forecast series, with every parameter name the support
\* predicate accepts for that kind, extractWeatherParameter returns a number.
C19_ExtractionTotal ==
    (Extracted /\ isParameterSupported(call.parameter, call.isCurrentWeather)) =>
        (call.result[1] # Threw /\ call.result[1][1] \in Int)

\* C19, amended: extraction is total over the supported set for a realtime
\* observation and for a forecast series of at least one interval; an absent
\* optional field of the observation extracts as 0; a forecast series without
\* intervals faults for every parameter.
C19_ExtractionTotalOnIntervals ==
    Extracted =>
        /\ ( /\ isParameterSupported(call.parameter, call.isCurrentWeather)
             /\ call.isCurrentWeather \/ call.data.intervals # <<>> )
              => (call.result[1] # Threw /\ call.result[1][1] \in Int)
        /\ ( /\ call.isCurrentWeather
             /\ call.parameter \in {"uvIndex", "cloudCover", "pressure", "weatherCode"}
             /\ call.data[call.parameter] = None )
              => call.result[1] = Returned(0)
        /\ (~call.isCurrentWeather /\ call.data.intervals = <<>>) => call.result[1] = Threw

\* an observation without uvIndex extracts uvIndex as 0
C19_Witness ==
    /\ Extracted
    /\ call.isCurrentWeather
    /\ call.parameter = "uvIndex"
    /\ call.data.uvIndex = None
    /\ call.result[1] = Returned(0)

\* a supported parameter read from the first interval of a series
C19_WitnessForecast ==
    /\ Extracted
    /\ ~call.isCurrentWeather
    /\ call.parameter = "humidity"
    /\ Len(call.data.intervals) = 2
    /\ call.result[1] = Returned(call.data.intervals[1].humidity)

EvaluatedOne == call.fn = "evaluateAlert" /\ call.result # None

CallsOf(fn) == {i \in DOMAIN call.result[1].calls : call.result[1].calls[i].fn = fn}

\* C20: evaluateAlert consults the support predicate before extraction and
\* attempts no extraction for an unsupported (parameter, kind).  The support
\* predicate is its first call and an extraction follows only its acceptance;
\* a forecast alert on windDirection, pressure or visibility is
\* 'not_triggered' whatever its operator and threshold, with no extraction and
\* no comparison (the forecast defaults 0 and 10000 meet no threshold).
C20_SupportCheckedBeforeExtraction ==
    EvaluatedOne =>
        LET al == call.alert
            calls == call.result[1].calls
        IN  /\ calls[1].fn = "isParameterSupported"
            /\ \A i \in CallsOf("extractWeatherParameter") :
                  i = 2 /\ calls[1].returned = Returned(TRUE)
            /\ ~isParameterSupported(al.parameter, al.type = "realtime") =>
                  /\ CallsOf("extractWeatherParameter") = {}
                  /\ CallsOf("evaluateCondition") = {}
                  /\ call.result[1].state = "not_triggered"
            /\ (al.type = "forecast"
                  /\ al.parameter \in {"windDirection", "pressure", "visibility"}) =>
                  /\ CallsOf("extractWeatherParameter") = {}
                  /\ CallsOf("evaluateCondition") = {}
                  /\ call.result[1].state = "not_triggered"

\* a forecast alert `pressure < 0.01` on a series with intervals: the default 0
\* would match, and the alert is not triggered
C20_Witness ==
    /\ EvaluatedOne
    /\ call.alert.type = "forecast"
    /\ call.alert.parameter = "pressure"
    /\ call.alert.operator = "<"
    /\ call.alert.threshold = 1
    /\ call.weatherData.intervals # <<>>
    /\ Holds(call.alert.operator, ForecastDefaultZero, call.alert.threshold)
    /\ call.result[1].state = "not_triggered"
    /\ Len(call.result[1].calls) = 1

Processed == call.fn = "processBatchUpdateResult" /\ call.result # None

SeqToSet(xs) == {xs[i] : i \in DOMAIN xs}

\* C21: bulk write-back accounting.  For a response reporting modifiedCount m
\* for n requested ids, the ids reported successful are the first min(m, n) in
\* request order and the others are reported failed; the two lists are disjoint
\* and together hold exactly the requested ids; when the response body reports
\* success=false (or the request failed) every requested id is reported failed.
C21_BulkAccounting ==
    Processed =>
        LET ids == call.batch.alertIds
            n == Len(ids)
            m == call.outcome.modifiedCount
            accepted == call.outcome.transport = "ok" /\ call.outcome.success
            k == IF accepted THEN (IF m < n THEN m ELSE n) ELSE 0
            r == call.result[1]
        IN  /\ r.successful = [i \in 1..k |-> ids[i]]
            /\ r.failed = [i \in 1..(n - k) |-> ids[k + i]]
            /\ SeqToSet(r.successful) \cap SeqToSet(r.failed) = {}
            /\ SeqToSet(r.successful) \cup SeqToSet(r.failed) = SeqToSet(ids)
            /\ Len(r.successful) + Len(r.failed) = n
            /\ ~accepted => r.failed = ids

\* three ids requested, modifiedCount 1: the first succeeded, the other two failed
C21_Witness ==
    /\ Processed
    /\ Len(call.batch.alertIds) = 3
    /\ call.outcome.transport = "ok" /\ call.outcome.success
    /\ call.outcome.modifiedCount = 1
    /\ call.result[1].successful = <<call.batch.alertIds[1]>>
    /\ call.result[1].failed = <<call.batch.alertIds[2], call.batch.alertIds[3]>>

\* the response body reports success=false: every id failed
C21_WitnessRefused ==
    /\ Processed
    /\ call.outcome.transport = "ok" /\ ~call.outcome.success
    /\ call.result[1].successful = <<>>
    /\ call.result[1].failed = call.batch.alertIds

-----------------------------------------------------------------------------
(* Properties of the per-item fallback *)

\* the PUT requests of a cycle that write the state of alert id
PutsOf(cy, id) ==
    {i \in DOMAIN cy.requests : cy.requests[i].method = "PUT" /\ cy.requests[i].ids = <<id>>}

\* the per-item updates of a cycle whose status is one of S
UpdatesIn(cy, S) == {i \in DOMAIN cy.updatePromises : cy.updatePromises[i].status \in S}

\* C22: the per-item fallback sends exactly one PUT per triggered id and none
\* for any other id; it goes on waiting as long as one of them is in flight,
\* whatever the others settled with; every settled update is counted once, as
\* a success only when it was accepted; and when it returns every update has
\* settled and successCount + failureCount is the number of triggered ids.
C22_FallbackIndependent ==
    \A c \in DOMAIN cycles :
        LET cy == cycles[c]
            ids == TriggeredIds(cy)
        IN  /\ \A id \in ids : Cardinality(PutsOf(cy, id)) = 1
            /\ \A i \in DOMAIN cy.requests :
                   cy.requests[i].method = "PUT" =>
                       \E id \in ids : cy.requests[i].ids = <<id>>
            /\ {cy.updatePromises[i].alertId : i \in DOMAIN cy.updatePromises} = ids
            /\ Len(cy.updatePromises) = Cardinality(ids)
            /\ cy.pc = "fallback" <=> UpdatesIn(cy, {"inflight"}) # {}
            /\ cy.pc = "done" <=> UpdatesIn(cy, {"inflight"}) = {}
            /\ cy.successCount = Cardinality(UpdatesIn(cy, {"ok"}))
            /\ cy.failureCount = Cardinality(UpdatesIn(cy, {"refused", "rejected"}))
            /\ cy.pc = "done" => cy.successCount + cy.failureCount = Cardinality(ids)

\* three triggered ids; the fallback has returned after the first PUT sent was
\* rejected, the second refused and the third accepted
C22_Witness ==
    \E c \in DOMAIN cycles :
        LET cy == cycles[c]
        IN  /\ cy.pc = "done"
            /\ Len(cy.updatePromises) = 3
            /\ cy.updatePromises[1].status = "rejected"
            /\ cy.updatePromises[2].status = "refused"
            /\ cy.updatePromises[3].status = "ok"
            /\ cy.successCount = 1 /\ cy.failureCount = 2
            /\ stored[cy.updatePromises[3].alertId] = "triggered"

\* one update has failed while another is still in flight: the fallback waits
C22_WitnessWaiting ==
    \E c \in DOMAIN cycles :
        LET cy == cycles[c]
        IN  /\ cy.pc = "fallback"
            /\ UpdatesIn(cy, {"rejected"}) # {}
            /\ UpdatesIn(cy, {"inflight"}) # {}

-----------------------------------------------------------------------------
(* Properties of the weather requests *)

\* the pieces of s between the occurrences of the character sep
RECURSIVE SplitOn(_, _)
SplitOn(s, sep) ==
    IF \A i \in DOMAIN s : s[i] # sep THEN <<s>>
    ELSE LET i == CHOOSE k \in DOMAIN s : s[k] = sep /\ \A j \in 1..(k - 1) : s[j] # sep
         IN  <<SubSeq(s, 1, i - 1)>> \o SplitOn(SubSeq(s, i + 1, Len(s)), sep)

\* the parameters of a query string, as the receiving server reads them
QueryParams(query) ==
    LET parts == SplitOn(query, "&")
    IN  [i \in DOMAIN parts |->
            LET nv == SplitOn(parts[i], "=")
            IN  [name |-> nv[1],
                 value |-> IF Len(nv) > 1 THEN SubSeq(parts[i], Len(nv[1]) + 2, Len(parts[i]))
                           ELSE <<>>]]

StrLat == <<"l","a","t">>
StrLon == <<"l","o","n">>
StrCity == <<"c","i","t","y">>
StrTimestep == <<"t","i","m","e","s","t","e","p">>

\* the location parameters a request carries
LocationParams(request) ==
    SelectSeq(QueryParams(request.query), LAMBDA p : p.name # StrTimestep)

WeatherRequested == call.fn = "getWeather" /\ call.result # None

\* C23: a location with both lat and lon is sent as exactly the two parameters
\* lat and lon, a city it also has being left out; any other location with a
\* non-empty city is sent as exactly the one parameter city; a location with
\* neither makes both fetches fail before a request is sent.  No request
\* carries a city together with lat or lon.
C23_LocationEncodedOneWay ==
    WeatherRequested =>
        LET l == call.location
            sent == {call.result[1].realtime, call.result[1].forecast}
        IN  /\ HasCoordinates(l) =>
                   \A r \in sent :
                       /\ r # Threw
                       /\ LocationParams(r[1]) =
                              <<[name |-> StrLat, value |-> numberToString(l.lat[1])],
                                [name |-> StrLon, value |-> numberToString(l.lon[1])]>>
            /\ (~HasCoordinates(l) /\ l.city # None /\ l.city[1] # <<>>) =>
                   \A r \in sent :
                       /\ r # Threw
                       /\ LocationParams(r[1]) =
                              <<[name |-> StrCity, value |-> encodeURIComponent(l.city[1])]>>
            /\ (~HasCoordinates(l) /\ (l.city = None \/ l.city[1] = <<>>)) =>
                   sent = {Threw}
            /\ \A r \in sent \ {Threw} :
                   LET names == {LocationParams(r[1])[i].name : i \in DOMAIN LocationParams(r[1])}
                   IN  names = {StrLat, StrLon} \/ names = {StrCity}

\* an alert with coordinates and a city: the requests carry lat and lon only
C23_Witness ==
    /\ WeatherRequested
    /\ call.location = [lat |-> Some(30), lon |-> Some(31), city |-> Some(CityCairo)]
    /\ call.result[1].realtime # Threw
    /\ Len(QueryParams(call.result[1].realtime[1].query)) = 2
    /\ Len(QueryParams(call.result[1].forecast[1].query)) = 3

\* a location with neither coordinates nor a city: no request is sent
C23_WitnessNeither ==
    /\ WeatherRequested
    /\ call.location = NoLocation
    /\ call.result[1].realtime = Threw
    /\ call.result[1].forecast = Threw

\* a city whose text contains & and = is still one city parameter
C23_WitnessCity ==
    /\ WeatherRequested
    /\ call.location = InCity(CityLikeQuery)
    /\ call.result[1].realtime # Threw
    /\ Len(QueryParams(call.result[1].realtime[1].query)) = 1

-----------------------------------------------------------------------------
(* Termination of a cycle *)

\* the cycle is suspended at an await on a remote call that has not settled
AwaitsRemoteCall(cy) ==
    \/ cy.pc = "health" /\ (cy.alertsHealth = "inflight" \/ cy.weatherHealth = "inflight")
    \/ cy.pc = "pending" /\ cy.pending = "inflight"
    \/ cy.pc = "weather" /\ \E i \in DOMAIN cy.fetches : cy.fetches[i].status = "inflight"
    \/ cy.pc = "bulk" /\ \E i \in DOMAIN cy.batches : cy.batches[i].result = None
    \/ cy.pc = "fallback" /\ \E i \in DOMAIN cy.updatePromises :
                                 cy.updatePromises[i].status = "inflight"

\* C24: a cycle that has not returned or thrown is waiting for a remote call
\* that is still in flight, and for nothing else; when every remote call
\* settles at some time, the cycle once started reaches "done" or "failed".
C24_CycleTerminates ==
    /\ [](\A c \in DOMAIN cycles :
              cycles[c].pc \notin Terminal => AwaitsRemoteCall(cycles[c]))
    /\ (1 \in DOMAIN cycles) ~> (1 \in DOMAIN cycles /\ cycles[1].pc \in Terminal)

\* a cycle has returned after health checks, the pending fetch, two weather
\* fetches of which one failed, and a bulk update
C24_Witness ==
    \E c \in DOMAIN cycles :
        LET cy == cycles[c]
        IN  /\ cy.pc = "done"
            /\ Len(cy.fetches) >= 2
            /\ \E i \in DOMAIN cy.fetches : cy.fetches[i].status = "failed"
            /\ \E i \in DOMAIN cy.fetches : cy.fetches[i].status = "ok"
            /\ cy.batches # <<>>
            /\ \A i \in DOMAIN cy.batches : cy.batches[i].result # None

-----------------------------------------------------------------------------
(* No request is repeated within a cycle *)

\* the launched fetches of a cycle that sent a request
SentFetches(cy) == {i \in DOMAIN cy.fetches : cy.fetches[i].request # Threw}

\* C25: within a cycle the launched fetches have pairwise different
\* weather-data keys, each sent at most one request and the weather requests
\* of the cycle are exactly those (so none is sent again, whether it failed or
\* not); the cycle sends at most one bulk-update request, and no alert id is
\* written twice: each id is in at most one write request, once.
C25_NoRetries ==
    \A c \in DOMAIN cycles :
        LET cy == cycles[c]
            weather == RequestsOf(cy, IsWeatherFetch)
        IN  /\ \A i, j \in DOMAIN cy.fetches : cy.fetches[i].key = cy.fetches[j].key => i = j
            /\ \A i \in DOMAIN cy.fetches : Len(cy.fetches[i].request) <= 1
            /\ Cardinality(weather) = Cardinality(SentFetches(cy))
            /\ \A i, j \in weather : cy.requests[i] = cy.requests[j] => i = j
            /\ \A i \in weather : \E f \in SentFetches(cy) :
                   cy.fetches[f].request[1] = cy.requests[i]
            /\ Cardinality(RequestsOf(cy, LAMBDA r : r.method = "PATCH")) <= 1
            /\ \A id \in WrittenIds(cy) :
                   /\ Cardinality({i \in RequestsOf(cy, IsWrite) :
                                      \E j \in DOMAIN cy.requests[i].ids :
                                          cy.requests[i].ids[j] = id}) = 1
                   /\ \A i \in RequestsOf(cy, IsWrite) :
                          Cardinality({j \in DOMAIN cy.requests[i].ids :
                                          cy.requests[i].ids[j] = id}) <= 1

\* a cycle has ended after a fetch failed and two alerts on the same hourly
\* forecast were served by one request; it sent one bulk update
C25_Witness ==
    \E c \in DOMAIN cycles :
        LET cy == cycles[c]
        IN  /\ cy.pc = "done"
            /\ \E i \in DOMAIN cy.fetches : cy.fetches[i].status = "failed" /\ cy.fetches[i].request # Threw
            /\ \E i, j \in DOMAIN cy.alerts :
                   /\ i # j
                   /\ cy.alerts[i].type = "forecast" /\ cy.alerts[j].type = "forecast"
                   /\ OwnKey(cy.alerts[i]) = OwnKey(cy.alerts[j])
            /\ Cardinality(RequestsOf(cy, LAMBDA r : r.method = "PATCH")) = 1

-----------------------------------------------------------------------------
(* Properties of the evaluation of one alert *)

\* the series that agree with data on interval [0] and differ after it
SameFirstInterval(data) ==
    {d \in ForecastSeries(MaxSeriesLen + 1) :
        d.intervals # <<>> /\ d.intervals[1] = data.intervals[1]}

\* C26: the state evaluateAlert returns for a forecast alert on a series with
\* intervals is the state it returns on every series with the same interval
\* [0], whatever follows it, and on a series without intervals it is
\* 'not_triggered'.
C26_FirstIntervalOnly ==
    (EvaluatedOne /\ call.alert.type = "forecast") =>
        /\ call.weatherData.intervals # <<>> =>
               \A d \in SameFirstInterval(call.weatherData) :
                   evaluateAlert(call.alert, d) = call.result[1].state
        /\ call.weatherData.intervals = <<>> => call.result[1].state = "not_triggered"

\* humidity < 50 on a dry interval followed by a wet one: triggered by the
\* first, though the second does not meet the condition
C26_Witness ==
    /\ EvaluatedOne
    /\ call.alert.type = "forecast"
    /\ call.alert.parameter = "humidity" /\ call.alert.operator = "<"
    /\ call.alert.threshold = 5000
    /\ call.weatherData.intervals = <<IntervalDry, IntervalWet>>
    /\ call.result[1].state = "triggered"
    /\ evaluateAlert(call.alert, [intervals |-> <<IntervalWet>>]) = "not_triggered"

\* a series without intervals
C26_WitnessEmpty ==
    /\ EvaluatedOne
    /\ call.alert.type = "forecast"
    /\ call.alert.parameter = "humidity" /\ call.alert.operator = ">="
    /\ call.alert.threshold = 0
    /\ call.weatherData.intervals = <<>>
    /\ call.result[1].state = "not_triggered"

\* the optional fields of a realtime observation
OptionalFields == {"uvIndex", "cloudCover", "pressure", "weatherCode"}

\* the optional field of an observation that a parameter names
OptionalField(data, parameter) ==
    CASE parameter = "uvIndex" -> data.uvIndex
      [] parameter = "cloudCover" -> data.cloudCover
      [] parameter = "pressure" -> data.pressure
      [] parameter = "weatherCode" -> data.weatherCode

\* the value evaluateAlert extracted, as a sequence of at most one value
ExtractedBy(result) ==
    [i \in 1..Cardinality({j \in DOMAIN result.calls :
                              result.calls[j].fn = "extractWeatherParameter"}) |->
        result.calls[CHOOSE j \in DOMAIN result.calls :
                         result.calls[j].fn = "extractWeatherParameter"].returned]

\* C27: for a realtime alert on an optional field, evaluateAlert extracts 0
\* when the observation lacks the field and the field's value when it has it,
\* and the alert is 'triggered' exactly when its condition holds of that
\* number: of 0 for an absent field.
C27_AbsentOptionalIsZero ==
    (EvaluatedOne /\ call.alert.type = "realtime" /\ call.alert.parameter \in OptionalFields) =>
        LET al == call.alert
            field == OptionalField(call.weatherData, al.parameter)
            value == IF field = None THEN 0 ELSE field[1]
        IN  /\ ExtractedBy(call.result[1]) = <<Returned(value)>>
            /\ extractWeatherParameter(call.weatherData, al.parameter, TRUE) = Returned(value)
            /\ call.result[1].state = "triggered" <=> Holds(al.operator, value, al.threshold)

\* pressure < 100 on an observation without pressure: triggered
C27_Witness ==
    /\ EvaluatedOne
    /\ call.alert.type = "realtime"
    /\ call.alert.parameter = "pressure" /\ call.alert.operator = "<"
    /\ call.alert.threshold = 10000
    /\ call.weatherData.pressure = None
    /\ call.result[1].state = "triggered"

\* pressure < 100 on an observation with pressure 1013: not triggered
C27_WitnessPresent ==
    /\ EvaluatedOne
    /\ call.alert.type = "realtime"
    /\ call.alert.parameter = "pressure" /\ call.alert.operator = "<"
    /\ call.alert.threshold = 10000
    /\ call.weatherData.pressure = Some(101300)
    /\ ExtractedBy(call.result[1]) = <<Returned(101300)>>
    /\ call.result[1].state = "not_triggered"

\* the two precipitation parameters
PrecipitationParameters == {"precipitation.intensity", "precipitation.probability"}

\* the other of the two
OtherPrecipitation(parameter) ==
    IF parameter = "precipitation.intensity" THEN "precipitation.probability"
    ELSE "precipitation.intensity"

\* C28: for a forecast alert on a precipitation parameter, evaluateAlert
\* extracts the precipitationChance of the first interval under either name,
\* and the alert that differs only in naming the other precipitation
\* parameter gets the same state on the same series.
C28_ForecastPrecipitationAliases ==
    (EvaluatedOne /\ call.alert.type = "forecast"
                  /\ call.alert.parameter \in PrecipitationParameters) =>
        LET al == call.alert
            twin == [al EXCEPT !.parameter = OtherPrecipitation(al.parameter)]
            data == call.weatherData
        IN  /\ data.intervals # <<>> =>
                 /\ ExtractedBy(call.result[1]) =
                        <<Returned(data.intervals[1].precipitationChance)>>
                 /\ extractWeatherParameter(data, twin.parameter, FALSE) =
                        Returned(data.intervals[1].precipitationChance)
            /\ evaluateAlert(twin, data) = call.result[1].state

\* precipitation.intensity >= 50 on a series whose first interval has
\* precipitationChance 50: triggered, as under precipitation.probability
C28_Witness ==
    /\ EvaluatedOne
    /\ call.alert.type = "forecast"
    /\ call.alert.parameter = "precipitation.intensity"
    /\ call.alert.operator = ">=" /\ call.alert.threshold = 5000
    /\ call.weatherData.intervals = <<IntervalDry, IntervalWet>>
    /\ call.result[1].state = "triggered"
    /\ evaluateAlert([call.alert EXCEPT !.parameter = "precipitation.probability"],
                     call.weatherData) = "triggered"

\* C29: evaluateCondition returns false for an operator outside the
\* enumerated set, whatever the value and the threshold; evaluateAlert on an
\* alert with such an operator gets that false from evaluateCondition (for a
\* supported parameter whose extraction returned) and answers 'not_triggered';
\* and in evaluateAlerts such an alert is 'not_triggered' while every alert of
\* the list, before and after it, gets the state it gets on its own.
C29_UnknownOperatorIsFalse ==
    /\ Conditioned =>
           \A operator \in OperatorSamples \ Operators : call.result[1][operator] = FALSE
    /\ (EvaluatedOne /\ call.alert.operator \notin Operators) =>
           /\ call.result[1].state = "not_triggered"
           /\ \A i \in CallsOf("evaluateCondition") :
                  call.result[1].calls[i].returned = Returned(FALSE)
           /\ (ExtractedBy(call.result[1]) # <<>> /\ ExtractedBy(call.result[1])[1] # Threw) =>
                  CallsOf("evaluateCondition") # {}
    /\ Evaluated =>
           /\ Len(call.result[1]) = Len(call.alerts)
           /\ \A i \in DOMAIN call.alerts :
                  /\ call.alerts[i].operator \notin Operators =>
                         MapGet(call.result[1], call.alerts[i].id) = "not_triggered"
                  /\ MapGet(call.result[1], call.alerts[i].id) =
                         evaluateOne(call.alerts[i], call.weatherDataMap)

\* the alert with operator '=>' is not triggered and the alert after it, on
\* the same observation, is
C29_Witness ==
    /\ Evaluated
    /\ call.alerts = <<AlertO, AlertA>>
    /\ OwnKey(AlertA)[1] \in DOMAIN call.weatherDataMap
    /\ call.weatherDataMap[OwnKey(AlertA)[1]] = RealtimeHot
    /\ MapGet(call.result[1], "o") = "not_triggered"
    /\ MapGet(call.result[1], "a") = "triggered"

\* evaluateAlert reached evaluateCondition with '=>' and got false
C29_WitnessOne ==
    /\ EvaluatedOne
    /\ call.alert.operator = "=>"
    /\ call.alert.type = "realtime" /\ call.alert.parameter = "temperature"
    /\ CallsOf("evaluateCondition") # {}
    /\ call.result[1].state = "not_triggered"

-----------------------------------------------------------------------------
(* The evaluation results of a cycle *)

\* the alerts of a cycle that grouping left out of every group
DroppedAlerts(cy) ==
    {i \in DOMAIN cy.alerts :
        \A g \in DOMAIN cy.alertsByLocation :
            \A k \in DOMAIN cy.alertsByLocation[g].value :
                cy.alertsByLocation[g].value[k] # cy.alerts[i]}

\* the entries of the evaluation results under an id
EntriesOf(cy, id) == {i \in DOMAIN cy.evaluationResults : cy.evaluationResults[i].key = id}

\* C30: once a cycle has evaluated, its result map has exactly one entry per
\* alert of the pending list and no other entry.  An alert that grouping
\* dropped is 'not_triggered', has no weather-data key, so that no fetch of
\* the cycle is for it (every fetch is under the key of an alert that was not
\* dropped), and its id is in no write-back request.
C30_OneResultPerAlert ==
    \A c \in DOMAIN cycles :
        LET cy == cycles[c]
        IN  /\ cy.evaluated =>
                /\ \A i \in DOMAIN cy.alerts : Cardinality(EntriesOf(cy, cy.alerts[i].id)) = 1
                /\ Len(cy.evaluationResults) = Len(cy.alerts)
                /\ \A i \in DOMAIN cy.evaluationResults :
                       \E j \in DOMAIN cy.alerts : cy.alerts[j].id = cy.evaluationResults[i].key
            /\ \A i \in DroppedAlerts(cy) :
                /\ cy.evaluated => ResultOf(cy, cy.alerts[i].id) = "not_triggered"
                /\ OwnKey(cy.alerts[i]) = None
                /\ cy.alerts[i].id \notin WrittenIds(cy)
            /\ \A f \in DOMAIN cy.fetches :
                \E j \in DOMAIN cy.alerts \ DroppedAlerts(cy) :
                    OwnKey(cy.alerts[j]) = Some(cy.fetches[f].key)

\* a cycle has ended whose list held an alert without location next to one
\* that triggered: the first has its 'not_triggered' entry and only the
\* second was written
C30_Witness ==
    \E c \in DOMAIN cycles :
        LET cy == cycles[c]
        IN  /\ cy.pc = "done"
            /\ cy.evaluated
            /\ DroppedAlerts(cy) # {}
            /\ \A i \in DroppedAlerts(cy) : ResultOf(cy, cy.alerts[i].id) = "not_triggered"
            /\ WrittenIds(cy) # {}
            /\ Len(cy.evaluationResults) = Len(cy.alerts)

-----------------------------------------------------------------------------
(* Agreement of the fan-out and the evaluation on the weather-data keys *)

\* the key evaluateAlerts looks an alert up under; None when its location has no key
LookupKey(al) ==
    LET locationKey == createLocationKey(al.location)
    IN  IF locationKey = Threw THEN None ELSE Some(weatherDataKey(al, locationKey[1]))

\* the launched fetches of a cycle that store under key
FetchesUnder(cy, key) == {j \in DOMAIN cy.fetches : cy.fetches[j].key = key}

\* C31: once the fan-out of a cycle has launched its fetches, every alert of
\* the list whose location has a key has exactly one fetch whose storage key
\* is the key evaluateAlerts looks the alert up under (with '1h' for a
\* forecast alert without timestep on both sides), and every launched fetch
\* stores under the lookup key of some alert of the list.
C31_FetchLookupKeysAgree ==
    \A c \in DOMAIN cycles :
        LET cy == cycles[c]
        IN  (cy.pending = "ok" /\ cy.alerts # <<>>) =>
              /\ \A i \in DOMAIN cy.alerts :
                    LookupKey(cy.alerts[i]) # None =>
                        Cardinality(FetchesUnder(cy, LookupKey(cy.alerts[i])[1])) = 1
              /\ \A j \in DOMAIN cy.fetches :
                    \E i \in DOMAIN cy.alerts :
                        LookupKey(cy.alerts[i]) = Some(cy.fetches[j].key)

\* a forecast alert without timestep in a padded city: its fetch is stored
\* under forecast:1h:cairo, the key it is looked up under, and it was
\* evaluated on the data fetched
C31_Witness ==
    \E c \in DOMAIN cycles :
        LET cy == cycles[c]
        IN  /\ cy.evaluated
            /\ \E i \in DOMAIN cy.alerts :
                   /\ cy.alerts[i] = AlertD
                   /\ LookupKey(AlertD) =
                          Some(StrForecast \o Str1h \o <<":">> \o <<"c","a","i","r","o">>)
                   /\ \E j \in FetchesUnder(cy, LookupKey(AlertD)[1]) :
                          cy.fetches[j].status = "ok"
                   /\ LookupKey(AlertD)[1] \in DOMAIN cy.weatherDataMap

-----------------------------------------------------------------------------
(* Location groups *)

\* two locations denote the same place: the same coordinates, or both given
\* by city only and the same city up to case and surrounding white space
SameLocation(l1, l2) ==
    \/ HasCoordinates(l1) /\ HasCoordinates(l2) /\ l1.lat = l2.lat /\ l1.lon = l2.lon
    \/ CityOnly(l1) /\ CityOnly(l2) /\ SameCity(l1.city[1], l2.city[1])

\* C32: all alerts of one location group of a cycle denote the same location;
\* a city-only alert and a coordinates alert are never in one group.
C32_GroupsHomogeneous ==
    \A c \in DOMAIN cycles :
        \A g \in DOMAIN cycles[c].alertsByLocation :
            LET locationAlerts == cycles[c].alertsByLocation[g].value
            IN  \A p, q \in DOMAIN locationAlerts :
                    /\ SameLocation(locationAlerts[p].location, locationAlerts[q].location)
                    /\ ~(CityOnly(locationAlerts[p].location)
                           /\ HasCoordinates(locationAlerts[q].location))

\* the alert in the city named "30,31" leads the group of the alerts at
\* (30,31): their weather is requested by that city name
C32_MixedGroup ==
    \E c \in DOMAIN cycles :
        \E g \in DOMAIN cycles[c].alertsByLocation :
            LET locationAlerts == cycles[c].alertsByLocation[g].value
            IN  /\ Len(locationAlerts) >= 2
                /\ locationAlerts[1] = AlertG
                /\ locationAlerts[2] = AlertC
                /\ \E j \in DOMAIN cycles[c].fetches :
                       /\ cycles[c].fetches[j].key = LookupKey(AlertC)[1]
                       /\ cycles[c].fetches[j].request =
                              Returned(Request("weather", "GET", "weather/realtime",
                                               StrCityEq \o encodeURIComponent(CityLikeCoordinates),
                                               <<>>, ""))

-----------------------------------------------------------------------------
(* The bulk update *)

\* C33: updateMultiAlerts never rejects.  When its PATCH failed at transport
\* level it resolves with success = false, no successful update and every
\* requested id, in request order, as failed; it sends no PUT, so the cycle
\* that called it holds none.
C33_BulkUpdateNeverRejects ==
    \A c \in DOMAIN cycles :
        LET cy == cycles[c]
        IN  /\ ~cy.writeResult.threw
            /\ (BatchesSettled(cy) /\ TransportFailed(cy)) =>
                  /\ cy.pc = "done"
                  /\ cy.writeResult.success = FALSE
                  /\ cy.writeResult.successfulUpdates = <<>>
                  /\ \A i \in DOMAIN cy.batches :
                         ~cy.batches[i].result[1].success =>
                             cy.batches[i].result[1].response = None
                  /\ Len(cy.batches) = 1 => cy.writeResult.failedUpdates = cy.batches[1].alertIds
                  /\ SeqToSet(cy.writeResult.failedUpdates) = TriggeredIds(cy)
                  /\ RequestsOf(cy, LAMBDA r : r.method = "PUT") = {}

\* the PATCH of two triggered ids failed at transport level and the cycle
\* has returned with both ids reported failed
C33_Witness ==
    \E c \in DOMAIN cycles :
        LET cy == cycles[c]
        IN  /\ cy.pc = "done"
            /\ Len(cy.batches) = 1
            /\ Len(cy.batches[1].alertIds) = 2
            /\ TransportFailed(cy)
            /\ ~cy.writeResult.success
            /\ cy.writeResult.failedUpdates = cy.batches[1].alertIds

-----------------------------------------------------------------------------
(* An unexpected answer to the pending-alerts request *)

\* C34 as stated: a body that says success = false, or whose data is not a
\* list, is taken as no pending alert, and after two healthy checks the
\* cycle fails at this stage only when the request was rejected.
C34_OnlyRejectionFails ==
    \A c \in DOMAIN cycles :
        LET cy == cycles[c]
        IN  /\ cy.pending \in {"refused", "malformed"} =>
                /\ cy.pc = "done"
                /\ cy.alerts = <<>>
                /\ ~cy.evaluated
                /\ RequestsOf(cy, IsWeatherFetch) = {}
                /\ RequestsOf(cy, IsWrite) = {}
            /\ (cy.pc = "failed" /\ BothHealthy(cy)) => cy.pending = "rejected"
            /\ cy.pending = "rejected" => cy.pc = "failed"

\* C34: when the store answers the pending-alerts request with a body that
\* says success = false, or whose data is not a list, the cycle takes it as no
\* pending alert: it returns without a weather fetch, an evaluation or a
\* write-back.  After two healthy checks the cycle fails at this stage when
\* the request was rejected or answered with a null body, and only then.
C34_UnexpectedBodyIsEmptyList ==
    \A c \in DOMAIN cycles :
        LET cy == cycles[c]
        IN  /\ cy.pending \in {"refused", "malformed"} =>
                /\ cy.pc = "done"
                /\ cy.alerts = <<>>
                /\ ~cy.evaluated
                /\ RequestsOf(cy, IsWeatherFetch) = {}
                /\ RequestsOf(cy, IsWrite) = {}
            /\ (cy.pc = "failed" /\ BothHealthy(cy)) => cy.pending \in {"rejected", "nobody"}
            /\ cy.pending \in {"rejected", "nobody"} =>
                /\ cy.pc = "failed"
                /\ RequestsOf(cy, IsWeatherFetch) = {}
                /\ RequestsOf(cy, IsWrite) = {}

\* the store answered success = false and the cycle has returned
C34_Witness ==
    \E c \in DOMAIN cycles :
        /\ cycles[c].pending = "refused"
        /\ cycles[c].pc = "done"
        /\ Cardinality(RequestsOf(cycles[c], IsPendingFetch)) = 1

\* the store answered with data that is not a list and the cycle has returned
C34_WitnessNotAList ==
    \E c \in DOMAIN cycles :
        /\ cycles[c].pending = "malformed"
        /\ cycles[c].pc = "done"

-----------------------------------------------------------------------------
(* Independence of the cycle's result from the order the fetches complete in *)

\* the weather-data map as a function of the outcomes of the launched
\* fetches alone: the data of each fulfilled fetch under its storage key
OutcomeMap(fetches) ==
    LET fulfilled == {i \in DOMAIN fetches : fetches[i].status = "ok"}
    IN  [key \in {fetches[i].key : i \in fulfilled} |->
            fetches[CHOOSE i \in fulfilled : fetches[i].key = key].data[1]]

\* C35: once every launched fetch of a cycle has settled, the weather-data
\* map, the evaluation results and the set of ids written back are functions
\* of the pending list and of the outcome of each fetch, whatever the order
\* the fetches completed in: the map holds exactly the data of the fulfilled
\* fetches under their keys, the results are the evaluation of the list on
\* that map, and the ids written back are the ids it evaluates 'triggered'.
C35_CompletionOrderIrrelevant ==
    \A c \in DOMAIN cycles :
        LET cy == cycles[c]
            final == OutcomeMap(cy.fetches)
            results == evaluateAlerts(cy.alerts, final)
        IN  /\ (cy.pc = "weather" \/ cy.evaluated) => cy.weatherDataMap = final
            /\ cy.evaluated =>
                  /\ FetchesSettled(cy)
                  /\ cy.evaluationResults = results
                  /\ WrittenIds(cy) =
                         {results[i].key : i \in {j \in DOMAIN results :
                                                      results[j].value = "triggered"}}

\* three concurrent fetches, two fulfilled and one rejected, evaluated with a
\* write-back
C35_Witness ==
    \E c \in DOMAIN cycles :
        LET cy == cycles[c]
        IN  /\ cy.evaluated
            /\ Len(cy.fetches) >= 3
            /\ Cardinality({i \in DOMAIN cy.fetches : cy.fetches[i].status = "ok"}) >= 2
            /\ \E i \in DOMAIN cy.fetches : cy.fetches[i].status = "failed"
            /\ WrittenIds(cy) # {}

-----------------------------------------------------------------------------
(* Cycles in progress under the schedule *)

\* the cycles that have started and neither returned nor thrown
Running == {c \in DOMAIN cycles : cycles[c].pc \notin Terminal}

\* the schedule is installed only after the startup cycle has returned or thrown
StartupEndsBeforeCron == sched = "cron" => (1 \in DOMAIN cycles /\ cycles[1].pc \in Terminal)

\* C36: at most one evaluation cycle is in progress at any time: the startup
\* cycle has ended before the cron job is installed, and no cron tick starts
\* a cycle while an earlier cron-triggered cycle is still running.
C36_AtMostOneCycleInProgress ==
    /\ StartupEndsBeforeCron
    /\ Cardinality(Running) <= 1

\* two cron-triggered cycles in progress at once, the startup cycle ended
C36_Overlap ==
    /\ StartupEndsBeforeCron
    /\ \E c, d \in Running : c # d /\ c > 1 /\ d > 1

-----------------------------------------------------------------------------
(* A failed cycle and the schedule *)

\* some cycle has thrown
SomeCycleFailed == \E c \in DOMAIN cycles : cycles[c].pc = "failed"

\* C37: a cycle that fails, at startup or in a cron tick, is caught by its
\* caller: after a failure the schedule is installed and stays installed, a
\* cron tick can still start a cycle (up to MaxCycles cycles), and every
\* cycle started after a failure is a new cycle at the health check with an
\* empty weather-data map and nothing carried over.
C37_FailureDoesNotStopSchedule ==
    /\ [](SomeCycleFailed =>
            /\ sched = "cron"
            /\ Len(cycles) < MaxCycles => ENABLED CronTick)
    /\ [][SomeCycleFailed =>
            /\ sched' = "cron"
            /\ Len(cycles') # Len(cycles) =>
                  /\ cycles' = Append(cycles, NewCycle)
                  /\ cycles'[Len(cycles')].pc = "health"
                  /\ cycles'[Len(cycles')].weatherDataMap = <<>>]_vars

\* the startup cycle and the first cron-triggered cycle have both failed, and
\* the cycle of a later tick has passed its health check and been evaluated
C37_Witness ==
    /\ Len(cycles) = 3
    /\ cycles[1].pc = "failed"
    /\ cycles[2].pc = "failed"
    /\ cycles[3].pc = "done" /\ cycles[3].evaluated /\ BothHealthy(cycles[3])

====
